---------------------------- MODULE Spec2Model ----------------------------
(***************************************************************************)
(* Model of the network path-resolution engine of GridFlow                 *)
(* (src/services/study/path_finder.py): resistance calculator, graph       *)
(* builder, Dijkstra search, nearest-reachable fallback and path           *)
(* reconstruction, with its caller main; and of the study-creation queue   *)
(* of src/api/app/study_routes.py.                                         *)
(*                                                                         *)
(* Conventions of the model                                                *)
(*  - A PAC code (node identifier string) is an integer of 1..NumPacs; the *)
(*    integer order stands for Python's string order, which heapq uses to  *)
(*    break ties between (distance, node) tuples.                          *)
(*  - A float is <<v>> for the number v and <<>> for not-a-number.         *)
(*  - Lengths (COMP) are metres, R1 is ohm/km, a resistance is kept in     *)
(*    milli-ohm: (comp / 1000.0) * r1 ohm = comp * r1 milli-ohm.           *)
(*  - A geometry is a LineString: the sequence of its vertices <<lon,lat>>.*)
(*  - A GeoDataFrame is the sequence of its rows; after reset_index the    *)
(*    row label i of the code is position i + 1 here.                      *)
(***************************************************************************)
EXTENDS Integers, Sequences, FiniteSets, TLC

VARIABLES
  study_queue,             \* study_routes: study name -> [status]
  study_folders,           \* the study folders that exist on disk
  tasks,                   \* the process_study tasks, in order of scheduling
  processing_lock,         \* asyncio.Lock: [locked, waiters]
  responses,               \* the responses of new_study, in order
  layer_gdfs,              \* main: layer name -> the layer read from the file
  point_of_interest,       \* main: <<"str", pac>> or <<"tuple", lon, lat>>
  point_of_destination,    \* main: likewise
  semi_paths_all,          \* main: the concatenated rows, before the scoping
  nearest_element_of_poi,  \* main: the row resolved for point_of_interest
  nearest_element_of_pod,  \* main: the row resolved for point_of_destination
  written,                 \* main: the writes to output.gpkg, in order
  start_pac,       \* argument start_pac of shortest_path_by_dijkstra
  dest_pac,        \* argument dest_pac
  semi_paths_gdf,  \* argument semi_paths_gdf: the circuit-scoped edge rows
  layer_ssdmt,     \* argument layer_ssdmt: COD_ID -> [COMP, TIP_CND]
  layer_segcon,    \* argument layer_segcon: COD_ID -> R1
  gdf,             \* _build_graph: rows with their resistence
  adj,             \* _build_graph: node -> list of <<neighbour, w, row>>
  node_xy,         \* _build_graph: node -> coordinate
  pair_to_rows,    \* _build_graph: frozenset of the pair -> list of rows
  dist,            \* _dijkstra: tentative distances
  dist_keys,       \* _dijkstra: the keys of dist in insertion order
  prev,            \* _dijkstra: predecessors
  pq,              \* _dijkstra: the heap, in push order
  visited,         \* _dijkstra: finalized nodes
  finalized,       \* _dijkstra: the <<d, u>> of each visited.add(u), in order
  path_nodes,      \* the node sequence handed to _nodes_to_rows_path
  path_gdf,        \* returned rows
  complete,        \* returned completeness flag
  err,             \* the exception raised, "none" when none is
  pc               \* position in shortest_path_by_dijkstra

vars == <<study_queue, study_folders, tasks, processing_lock, responses,
          layer_gdfs, point_of_interest, point_of_destination, semi_paths_all,
          nearest_element_of_poi, nearest_element_of_pod, written,
          start_pac, dest_pac, semi_paths_gdf, layer_ssdmt, layer_segcon,
          gdf, adj, node_xy, pair_to_rows, dist, dist_keys, prev, pq, visited,
          finalized, path_nodes, path_gdf, complete, err, pc>>

---------------------------------------------------------------------------
(* Bounds of the model *)

NumPacs == 4
MaxEdges == 3

PACs == 1..NumPacs

---------------------------------------------------------------------------
(* Small helpers *)

Range(s) == {s[i] : i \in DOMAIN s}

Abs(x) == IF x < 0 THEN -x ELSE x

Reverse(s) == [i \in 1..Len(s) |-> s[Len(s) + 1 - i]]

\* dict.get(key, default)
Get(f, k, default) == IF k \in DOMAIN f THEN f[k] ELSE default

\* d.setdefault(k, []).append(e)
SetDefaultAppend(f, k, e) ==
  IF k \in DOMAIN f
    THEN [f EXCEPT ![k] = Append(@, e)]
    ELSE [x \in DOMAIN f \cup {k} |-> IF x = k THEN <<e>> ELSE f[x]]

\* d.setdefault(k, v)
SetDefault(f, k, v) ==
  IF k \in DOMAIN f
    THEN f
    ELSE [x \in DOMAIN f \cup {k} |-> IF x = k THEN v ELSE f[x]]

\* d[k] = v
Put(f, k, v) == [x \in DOMAIN f \cup {k} |-> IF x = k THEN v ELSE f[x]]

RECURSIVE SumSeq(_)
SumSeq(s) == IF s = <<>> THEN 0 ELSE s[1] + SumSeq(Tail(s))

---------------------------------------------------------------------------
(* Floats and geometry *)

NaN == <<>>

IsNaN(x) == x = NaN

\* float multiplication: not-a-number propagates
FMul(x, y) == IF IsNaN(x) \/ IsNaN(y) THEN NaN ELSE <<x[1] * y[1]>>

\* Series.fillna(v)
FillNa(x, v) == IF IsNaN(x) THEN v ELSE x[1]

\* Series.map(table): the entry of the key, not-a-number when the key (itself
\* possibly not-a-number) has no entry
SeriesMap(key, table) ==
  IF IsNaN(key) \/ key[1] \notin DOMAIN table THEN NaN ELSE table[key[1]]

\* Geod(ellps="WGS84").inv(...)[2]: the distance between two coordinates. The
\* ellipsoidal distance is modelled by a metric on the integer grid in which
\* a degree of longitude is shorter than a degree of latitude.
geod_inv(p, q) == 2 * Abs(p[1] - q[1]) + 3 * Abs(p[2] - q[2])

\* _geodesic_length_m: geod.line_length over the vertices of the line
RECURSIVE geodesic_length_m(_)
geodesic_length_m(geom) ==
  IF Len(geom) < 2 THEN 0
  ELSE geod_inv(geom[1], geom[2]) + geodesic_length_m(Tail(geom))

\* _geom_endpoints_xy of a LineString: first and last vertex
geom_endpoints_xy(geom) == <<geom[1], geom[Len(geom)]>>

\* _row_pac_endpoints: {a: p0, b: p1}
row_pac_endpoints(row) ==
  LET a  == row.connection[1]
      b  == row.connection[2]
      pp == geom_endpoints_xy(row.geometry)
  IN  Put(Put(<<>>, a, pp[1]), b, pp[2])

---------------------------------------------------------------------------
(* Resistance Calculator: add_resistence_to_semi_paths *)

\* a faulty variant of row_resistence: the owner id is looked up for every
\* row, without the is_ssdmt mask
row_resistence_by_owner(row, ssdmt, segcon) ==
  LET comp == SeriesMap(<<row.cod_id>>, [c \in DOMAIN ssdmt |-> ssdmt[c].COMP])
      tip  == SeriesMap(<<row.cod_id>>,
                        [c \in DOMAIN ssdmt |-> <<ssdmt[c].TIP_CND>>])
      r1   == SeriesMap(tip, [t \in DOMAIN segcon |-> segcon[t]])
  IN  FMul(comp, r1)

\* the resistence of one row before fillna; milli-ohm
row_resistence(row, ssdmt, segcon) ==
  LET comp_by_cod == [c \in DOMAIN ssdmt |-> ssdmt[c].COMP]
      tip_by_cod  == [c \in DOMAIN ssdmt |-> <<ssdmt[c].TIP_CND>>]
      r1_by_tip   == [t \in DOMAIN segcon |-> segcon[t]]
      is_ssdmt    == row.path_type = "ssdmt"
      tip         == SeriesMap(<<row.cod_id>>, tip_by_cod)
      comp        == SeriesMap(<<row.cod_id>>, comp_by_cod)
      r1          == SeriesMap(tip, r1_by_tip)
  IN  IF is_ssdmt THEN FMul(comp, r1) ELSE <<0>>

\* lines 201-211: every row of the copy gets its resistence
add_resistence_all_rows(semi_paths, ssdmt, segcon) ==
  [i \in 1..Len(semi_paths) |->
     [connection |-> semi_paths[i].connection,
      cod_id     |-> semi_paths[i].cod_id,
      ctmt       |-> semi_paths[i].ctmt,
      path_type  |-> semi_paths[i].path_type,
      geometry   |-> semi_paths[i].geometry,
      resistence |-> FillNa(row_resistence(semi_paths[i], ssdmt, segcon), 0)]]

\* a faulty variant of add_resistence_to_semi_paths: an inner join, which
\* drops the rows whose lookups find no entry
add_resistence_inner_join(semi_paths, ssdmt, segcon) ==
  SelectSeq(add_resistence_all_rows(semi_paths, ssdmt, segcon),
            LAMBDA r : r.path_type # "ssdmt"
                         \/ ~IsNaN(row_resistence(r, ssdmt, segcon)))

add_resistence_to_semi_paths(semi_paths, ssdmt, segcon) ==
  add_resistence_all_rows(semi_paths, ssdmt, segcon)

---------------------------------------------------------------------------
(* Graph Builder: _build_graph *)

\* a faulty variant of frozenset: the ordered pair as the key
ordered_pair(a, b) == <<a, b>>

\* frozenset((a, b))
frozenset(a, b) == {a, b}

EmptyGraph == [adj |-> <<>>, node_xy |-> <<>>, pair_to_rows |-> <<>>]

\* a faulty variant of build_graph_row: the adjacency entry from b back to a
\* is left out
build_graph_row_directed(g, rows, i) ==
  LET row  == rows[i]
      a    == row.connection[1]
      b    == row.connection[2]
      w    == row.resistence
      pmap == row_pac_endpoints(row)
  IN  [adj          |-> SetDefaultAppend(g.adj, a, <<b, w, i>>),
       node_xy      |-> SetDefault(SetDefault(g.node_xy, a, pmap[a]), b, pmap[b]),
       pair_to_rows |-> SetDefaultAppend(g.pair_to_rows, frozenset(a, b), i)]

\* the body of the loop over the rows, for row i
build_graph_row(g, rows, i) ==
  LET row  == rows[i]
      a    == row.connection[1]
      b    == row.connection[2]
      w    == row.resistence
      pmap == row_pac_endpoints(row)
  IN  [adj          |-> SetDefaultAppend(SetDefaultAppend(g.adj, a, <<b, w, i>>),
                                         b, <<a, w, i>>),
       node_xy      |-> SetDefault(SetDefault(g.node_xy, a, pmap[a]), b, pmap[b]),
       pair_to_rows |-> SetDefaultAppend(g.pair_to_rows, frozenset(a, b), i)]

RECURSIVE build_graph_rows(_, _)
build_graph_rows(rows, k) ==
  IF k = 0 THEN EmptyGraph
  ELSE build_graph_row(build_graph_rows(rows, k - 1), rows, k)

build_graph(semi_paths, ssdmt, segcon) ==
  LET rows == add_resistence_to_semi_paths(semi_paths, ssdmt, segcon)
      g    == build_graph_rows(rows, Len(rows))
  IN  [gdf |-> rows, adj |-> g.adj, node_xy |-> g.node_xy,
       pair_to_rows |-> g.pair_to_rows]

---------------------------------------------------------------------------
(* Shortest-Path Engine: _dijkstra *)

\* the order of Python on (distance, node) tuples
TupleLE(e, f) == e[1] < f[1] \/ (e[1] = f[1] /\ e[2] <= f[2])

\* a faulty variant of heap_min: a queue popped in the order of the pushes
heap_fifo(q) == 1

\* a faulty variant of heap_min: among the entries of lowest distance, the
\* one pushed first
heap_first_lowest(q) ==
  CHOOSE i \in DOMAIN q :
    /\ \A j \in DOMAIN q : q[i][1] <= q[j][1]
    /\ \A j \in DOMAIN q : (j < i) => q[j][1] > q[i][1]

\* heapq.heappop: the position in pq of the smallest tuple
heap_min(q) ==
  CHOOSE i \in DOMAIN q :
    /\ \A j \in DOMAIN q : TupleLE(q[i], q[j])
    /\ \A j \in DOMAIN q : (j < i) => q[j] # q[i]

RemoveAt(q, i) == [j \in 1..(Len(q) - 1) |-> IF j < i THEN q[j] ELSE q[j + 1]]

\* a faulty variant of improves: "<=" as the comparison
improves_or_equal(nd, v, dst) == v \notin DOMAIN dst \/ nd <= dst[v]

\* a faulty variant of improves: a node without a tentative distance is
\* never given one
improves_known(nd, v, dst) == v \in DOMAIN dst /\ nd < dst[v]

\* the test that guards a relaxation: nd < dist.get(v, float('inf'))
improves(nd, v, dst) == v \notin DOMAIN dst \/ nd < dst[v]

\* the body of "for v, w, _ in adj.get(u, [])" for one adjacency entry
relax_edge(st, u, d, e) ==
  LET v  == e[1]
      nd == d + e[2]
  IN  IF improves(nd, v, st.dist)
        THEN [dist |-> Put(st.dist, v, nd),
              keys |-> IF v \in DOMAIN st.dist THEN st.keys
                                                ELSE Append(st.keys, v),
              prev |-> Put(st.prev, v, u),
              pq   |-> Append(st.pq, <<nd, v>>)]
        ELSE st

\* the whole for loop over the adjacency entries of u, in list order
RECURSIVE relax_all(_, _, _, _)
relax_all(st, u, d, edges) ==
  IF edges = <<>> THEN st
  ELSE relax_all(relax_edge(st, u, d, Head(edges)), u, d, Tail(edges))

\* a faulty variant of reconstruct_from: at a node without a predecessor it
\* returns the nodes walked so far instead of the empty list
RECURSIVE reconstruct_from_keep(_, _, _)
reconstruct_from_keep(prv, start, path) ==
  LET last == path[Len(path)]
  IN  IF last = start \/ last \notin DOMAIN prv THEN Reverse(path)
      ELSE reconstruct_from_keep(prv, start, Append(path, prv[last]))

\* _reconstruct: follow prev from target back to start
RECURSIVE reconstruct_from(_, _, _)
reconstruct_from(prv, start, path) ==
  LET last == path[Len(path)]
  IN  IF last = start THEN Reverse(path)
      ELSE IF last \notin DOMAIN prv THEN <<>>
      ELSE reconstruct_from(prv, start, Append(path, prv[last]))

\* a faulty variant of reconstruct: the membership in prev is tested before
\* the arrival at start
reconstruct_prev_first(prv, start, target) ==
  IF target \notin DOMAIN prv THEN <<>>
  ELSE reconstruct_from(prv, start, <<target>>)

\* a faulty variant of reconstruct: a target without a predecessor gives the
\* path that stays at start
reconstruct_or_start(prv, start, target) ==
  IF target # start /\ target \notin DOMAIN prv THEN <<start>>
  ELSE reconstruct_from(prv, start, <<target>>)

reconstruct(prv, start, target) == reconstruct_from(prv, start, <<target>>)

\* _closest_reachable_node: scans the keys of dist in insertion order and
\* keeps the first one of strictly smaller distance. <<>> stands for None.
RECURSIVE closest_scan(_, _, _, _, _)
closest_scan(keys, nxy, goal_xy, best, bestd) ==
  IF keys = <<>> THEN best
  ELSE LET n == Head(keys)
       IN  IF n \notin DOMAIN nxy
             THEN closest_scan(Tail(keys), nxy, goal_xy, best, bestd)
           ELSE LET d == geod_inv(nxy[n], goal_xy)
                IN  IF bestd = <<>> \/ d < bestd[1]
                      THEN closest_scan(Tail(keys), nxy, goal_xy, <<n>>, <<d>>)
                      ELSE closest_scan(Tail(keys), nxy, goal_xy, best, bestd)

\* a faulty variant of closest_reachable_node: the distances are not
\* compared, the last key that has a coordinate is kept
closest_last_key(keys, nxy, goal_xy) ==
  LET S == {i \in DOMAIN keys : keys[i] \in DOMAIN nxy}
  IN  IF S = {} THEN <<>>
      ELSE <<keys[CHOOSE i \in S : \A j \in S : j <= i]>>

\* a faulty variant of closest_reachable_node: "d <= bestd" as the
\* comparison, the last of the equally near keys is kept
closest_last_nearest(keys, nxy, goal_xy) ==
  LET S == {i \in DOMAIN keys : keys[i] \in DOMAIN nxy}
      N == {i \in S : \A j \in S : geod_inv(nxy[keys[i]], goal_xy)
                                      <= geod_inv(nxy[keys[j]], goal_xy)}
  IN  IF S = {} THEN <<>>
      ELSE <<keys[CHOOSE i \in N : \A j \in N : j <= i]>>

closest_reachable_node(keys, nxy, goal_xy) ==
  closest_scan(keys, nxy, goal_xy, <<>>, <<>>)

---------------------------------------------------------------------------
(* Path Reconstructor: _nodes_to_rows_path *)

\* min(candidates, key=length): the first candidate of smallest length
min_by_length(rows, candidates) ==
  LET k == CHOOSE i \in DOMAIN candidates :
             /\ \A j \in DOMAIN candidates :
                  geodesic_length_m(rows[candidates[i]].geometry)
                    <= geodesic_length_m(rows[candidates[j]].geometry)
             /\ \A j \in DOMAIN candidates :
                  (j < i) => geodesic_length_m(rows[candidates[j]].geometry)
                               > geodesic_length_m(rows[candidates[i]].geometry)
  IN  candidates[k]

\* the row ids appended for the consecutive pairs of nodes, from position k
RECURSIVE row_ids_from(_, _, _, _)
row_ids_from(rows, nodes, p2r, k) ==
  IF k >= Len(nodes) THEN <<>>
  ELSE LET candidates == Get(p2r, frozenset(nodes[k], nodes[k + 1]), <<>>)
       IN  IF candidates = <<>>
             THEN row_ids_from(rows, nodes, p2r, k + 1)
             ELSE <<min_by_length(rows, candidates)>>
                    \o row_ids_from(rows, nodes, p2r, k + 1)

\* a faulty variant of nodes_to_row_ids: "len(nodes) < 3" as the test for
\* the empty result
nodes_to_row_ids_short(rows, nodes, p2r) ==
  IF Len(nodes) < 3 THEN <<>> ELSE row_ids_from(rows, nodes, p2r, 1)

nodes_to_row_ids(rows, nodes, p2r) ==
  IF Len(nodes) < 2 THEN <<>> ELSE row_ids_from(rows, nodes, p2r, 1)

nodes_to_rows_path(rows, nodes, p2r) ==
  LET ids == nodes_to_row_ids(rows, nodes, p2r)
  IN  [k \in 1..Len(ids) |-> rows[ids[k]]]

---------------------------------------------------------------------------
(* Inputs of the model: circuit-scoped edge sets over PACs *)

\* the coordinate of a junction; edges that share a node agree on it
PacXY(n) == CASE n = 1 -> <<0, 0>>
              [] n = 2 -> <<2, 0>>
              [] n = 3 -> <<1, 1>>
              [] OTHER -> <<n - 1, 1>>

\* a vertex off the straight line, outside the bounding box of every pair
Waypoint == <<-1, -1>>

\* the line between two junctions: straight, or by way of Waypoint
Line(a, b, detour) ==
  IF detour THEN <<PacXY(a), Waypoint, PacXY(b)>> ELSE <<PacXY(a), PacXY(b)>>

\* the assets an edge row may stand for: a segment laid straight, a longer
\* segment and a switch, both drawn by way of Waypoint
Assets == {[path_type |-> "ssdmt",  cod_id |-> "101", detour |-> FALSE],
           [path_type |-> "ssdmt",  cod_id |-> "102", detour |-> TRUE],
           [path_type |-> "unsemt", cod_id |-> "201", detour |-> TRUE]}

\* the rows between a and b, in the orientation (a, b)
RowsOf(a, b) ==
  {[connection |-> <<a, b>>, cod_id |-> as.cod_id, ctmt |-> "ctmt1",
    path_type |-> as.path_type, geometry |-> Line(a, b, as.detour)] :
     as \in Assets}

EdgeRows == UNION {RowsOf(p[1], p[2]) : p \in {q \in PACs \X PACs : q[1] < q[2]}}

\* the position of a row's pair in the order of the pairs
PairRank(r) == r.connection[1] * (NumPacs + 1) + r.connection[2]

\* edge sets of at most MaxEdges rows, listed pair by pair
EdgeSets ==
  UNION {{s \in [1..n -> EdgeRows] :
            \A i \in 1..(n - 1) : PairRank(s[i]) <= PairRank(s[i + 1])} :
         n \in 0..MaxEdges}

\* the segment table: segment 101 is 1000 m, segment 102 is 2000 m, both of
\* conductor c1, whose R1 is 1 ohm/km
SsdmtTable == ("101" :> [COMP |-> <<1000>>, TIP_CND |-> "c1"])
           @@ ("102" :> [COMP |-> <<2000>>, TIP_CND |-> "c1"])

SegconTable == ("c1" :> <<1>>)

---------------------------------------------------------------------------
(* shortest_path_by_dijkstra as a state machine *)

\* the state of the study routes (study_routes.py)
server == <<study_queue, study_folders, tasks, processing_lock, responses>>

\* the study routes before any request (lines 13, 19)
ServerIdle ==
  /\ study_queue = <<>>
  /\ study_folders = {}
  /\ tasks = <<>>
  /\ processing_lock = [locked |-> 0, waiters |-> <<>>]
  /\ responses = <<>>

\* the variables of main when shortest_path_by_dijkstra is called on its own
CallerIdle ==
  /\ layer_gdfs = <<>>
  /\ point_of_interest = <<>>
  /\ point_of_destination = <<>>
  /\ semi_paths_all = <<>>
  /\ nearest_element_of_poi = <<>>
  /\ nearest_element_of_pod = <<>>
  /\ written = <<>>

Init ==
  /\ ServerIdle
  /\ CallerIdle
  /\ start_pac \in PACs
  /\ dest_pac \in PACs
  /\ semi_paths_gdf \in EdgeSets
  /\ layer_ssdmt = SsdmtTable
  /\ layer_segcon = SegconTable
  /\ gdf = <<>>
  /\ adj = <<>>
  /\ node_xy = <<>>
  /\ pair_to_rows = <<>>
  /\ dist = <<>>
  /\ dist_keys = <<>>
  /\ prev = <<>>
  /\ pq = <<>>
  /\ visited = {}
  /\ finalized = <<>>
  /\ path_nodes = <<>>
  /\ path_gdf = <<>>
  /\ complete = FALSE
  /\ err = "none"
  /\ pc = "build"

caller == <<layer_gdfs, point_of_interest, point_of_destination, semi_paths_all,
            nearest_element_of_poi, nearest_element_of_pod, written>>
inputs == <<server, caller, start_pac, dest_pac, semi_paths_gdf, layer_ssdmt,
            layer_segcon>>
graph == <<gdf, adj, node_xy, pair_to_rows>>
search == <<dist, dist_keys, prev, pq, visited, finalized>>
output == <<path_nodes, path_gdf, complete, err>>

\* line 315 and the first lines of _dijkstra (235-238)
sp_build ==
  /\ pc = "build"
  /\ LET g == build_graph(semi_paths_gdf, layer_ssdmt, layer_segcon)
     IN  /\ gdf' = g.gdf
         /\ adj' = g.adj
         /\ node_xy' = g.node_xy
         /\ pair_to_rows' = g.pair_to_rows
  /\ dist' = Put(<<>>, start_pac, 0)
  /\ dist_keys' = <<start_pac>>
  /\ prev' = <<>>
  /\ pq' = <<<<0, start_pac>>>>
  /\ visited' = {}
  /\ finalized' = <<>>
  /\ pc' = "dijkstra"
  /\ UNCHANGED <<inputs, output>>

\* a faulty variant of dijkstra_pop_visited: without "if u in visited:
\* continue" the popped node is finalized and expanded again
dijkstra_pop_again ==
  /\ pc = "dijkstra"
  /\ pq # <<>>
  /\ LET i  == heap_min(pq)
         st == relax_all([dist |-> dist, keys |-> dist_keys, prev |-> prev,
                          pq |-> RemoveAt(pq, i)],
                         pq[i][2], pq[i][1], Get(adj, pq[i][2], <<>>))
     IN  /\ pq[i][2] \in visited
         /\ pq[i][2] # dest_pac
         /\ finalized' = Append(finalized, pq[i])
         /\ dist' = st.dist
         /\ dist_keys' = st.keys
         /\ prev' = st.prev
         /\ pq' = st.pq
  /\ UNCHANGED <<inputs, graph, visited, output, pc>>

\* one turn of "while pq": the popped node is already visited (continue)
dijkstra_pop_visited ==
  /\ pc = "dijkstra"
  /\ pq # <<>>
  /\ LET i == heap_min(pq)
     IN  /\ pq[i][2] \in visited
         /\ pq' = RemoveAt(pq, i)
  /\ UNCHANGED <<inputs, graph, dist, dist_keys, prev, visited, finalized,
                 output, pc>>

\* one turn of "while pq": the popped node is the goal (break)
dijkstra_pop_goal ==
  /\ pc = "dijkstra"
  /\ pq # <<>>
  /\ LET i == heap_min(pq)
         u == pq[i][2]
     IN  /\ u \notin visited
         /\ u = dest_pac
         /\ pq' = RemoveAt(pq, i)
         /\ visited' = visited \cup {u}
         /\ finalized' = Append(finalized, pq[i])
  /\ pc' = "returning"
  /\ UNCHANGED <<inputs, graph, dist, dist_keys, prev, output>>

\* a faulty variant of dijkstra_pop_expand: without "if u == goal: break"
\* the goal is expanded like any other node
dijkstra_pop_no_break ==
  /\ pc = "dijkstra"
  /\ pq # <<>>
  /\ LET i  == heap_min(pq)
         d  == pq[i][1]
         u  == pq[i][2]
         st == relax_all([dist |-> dist, keys |-> dist_keys, prev |-> prev,
                          pq |-> RemoveAt(pq, i)],
                         u, d, Get(adj, u, <<>>))
     IN  /\ u \notin visited
         /\ visited' = visited \cup {u}
         /\ finalized' = Append(finalized, pq[i])
         /\ dist' = st.dist
         /\ dist_keys' = st.keys
         /\ prev' = st.prev
         /\ pq' = st.pq
  /\ UNCHANGED <<inputs, graph, output, pc>>

\* one turn of "while pq": the popped node is expanded
dijkstra_pop_expand ==
  /\ pc = "dijkstra"
  /\ pq # <<>>
  /\ LET i  == heap_min(pq)
         d  == pq[i][1]
         u  == pq[i][2]
         st == relax_all([dist |-> dist, keys |-> dist_keys, prev |-> prev,
                          pq |-> RemoveAt(pq, i)],
                         u, d, Get(adj, u, <<>>))
     IN  /\ u \notin visited
         /\ u # dest_pac
         /\ visited' = visited \cup {u}
         /\ finalized' = Append(finalized, pq[i])
         /\ dist' = st.dist
         /\ dist_keys' = st.keys
         /\ prev' = st.prev
         /\ pq' = st.pq
  /\ UNCHANGED <<inputs, graph, output, pc>>

\* "while pq" ends with the heap empty
dijkstra_exhausted ==
  /\ pc = "dijkstra"
  /\ pq = <<>>
  /\ pc' = "returning"
  /\ UNCHANGED <<inputs, graph, search, output>>

\* rows_with_dest: the rows whose connection holds dest_pac, in row order
rows_with_dest(rows, dest) ==
  SelectSeq(rows, LAMBDA r : dest \in Range(r.connection))

\* lines 318-320: the predecessor chain reaches dest_pac
return_complete ==
  /\ pc = "returning"
  /\ LET nodes == reconstruct(prev, start_pac, dest_pac)
     IN  /\ nodes # <<>>
         /\ path_nodes' = nodes
         /\ path_gdf' = nodes_to_rows_path(gdf, nodes, pair_to_rows)
  /\ complete' = TRUE
  /\ pc' = "done"
  /\ UNCHANGED <<inputs, graph, search, err>>

\* lines 323-325: no row holds dest_pac
return_no_dest_row ==
  /\ pc = "returning"
  /\ reconstruct(prev, start_pac, dest_pac) = <<>>
  /\ rows_with_dest(gdf, dest_pac) = <<>>
  /\ path_nodes' = <<>>
  /\ path_gdf' = <<>>
  /\ complete' = FALSE
  /\ pc' = "done"
  /\ UNCHANGED <<inputs, graph, search, err>>

\* the coordinate of dest_pac in the first row that holds it (line 326)
dest_xy_of(rows, dest) == row_pac_endpoints(rows_with_dest(rows, dest)[1])[dest]

\* lines 326-329: no key of dist has a coordinate
return_no_best ==
  /\ pc = "returning"
  /\ reconstruct(prev, start_pac, dest_pac) = <<>>
  /\ rows_with_dest(gdf, dest_pac) # <<>>
  /\ closest_reachable_node(dist_keys, node_xy, dest_xy_of(gdf, dest_pac)) = <<>>
  /\ path_nodes' = <<>>
  /\ path_gdf' = <<>>
  /\ complete' = FALSE
  /\ pc' = "done"
  /\ UNCHANGED <<inputs, graph, search, err>>

\* lines 326-331: the path to the reachable node nearest to dest_pac
return_partial ==
  /\ pc = "returning"
  /\ reconstruct(prev, start_pac, dest_pac) = <<>>
  /\ rows_with_dest(gdf, dest_pac) # <<>>
  /\ LET best == closest_reachable_node(dist_keys, node_xy,
                                        dest_xy_of(gdf, dest_pac))
     IN  /\ best # <<>>
         /\ path_nodes' = reconstruct(prev, start_pac, best[1])
         /\ path_gdf' = nodes_to_rows_path(gdf, path_nodes', pair_to_rows)
  /\ complete' = FALSE
  /\ pc' = "done"
  /\ UNCHANGED <<inputs, graph, search, err>>

Next ==
  \/ sp_build
  \/ dijkstra_pop_visited
  \/ dijkstra_pop_goal
  \/ dijkstra_pop_expand
  \/ dijkstra_exhausted
  \/ return_complete
  \/ return_no_dest_row
  \/ return_no_best
  \/ return_partial

Spec == Init /\ [][Next]_vars

---------------------------------------------------------------------------
(* Reference notions the properties are stated with: computed from the     *)
(* rows alone, not from the structures the search builds                   *)

MinOf(S) == CHOOSE x \in S : \A y \in S : x <= y

Last(s) == s[Len(s)]

\* the rows that connect the unordered pair {u, v}
RowsBetween(rows, u, v) ==
  {i \in DOMAIN rows : Range(rows[i].connection) = {u, v}}

\* the nodes some row refers to
Referenced(rows) == UNION {Range(rows[i].connection) : i \in DOMAIN rows}

\* the node sequences without a repeated node
SimplePaths ==
  {p \in UNION {[1..n -> PACs] : n \in 1..NumPacs} :
     \A i \in DOMAIN p : \A j \in DOMAIN p : (i # j) => (p[i] # p[j])}

\* the simple paths of the graph from s to t
PathsBetween(rows, s, t) ==
  {p \in SimplePaths :
     /\ p[1] = s
     /\ p[Len(p)] = t
     /\ \A k \in 1..(Len(p) - 1) : RowsBetween(rows, p[k], p[k + 1]) # {}}

\* the nodes reachable from s, s included
Reach(rows, s) == {t \in PACs : PathsBetween(rows, s, t) # {}}

\* the cheapest row between two nodes
CheapestBetween(rows, u, v) ==
  MinOf({rows[i].resistence : i \in RowsBetween(rows, u, v)})

\* a node sequence is a walk of the graph
IsWalk(rows, nodes) ==
  \A k \in 1..(Len(nodes) - 1) : RowsBetween(rows, nodes[k], nodes[k + 1]) # {}

\* the cumulative resistance of a walk, by its cheapest rows
WalkResistance(rows, nodes) ==
  SumSeq([k \in 1..(Len(nodes) - 1) |->
            CheapestBetween(rows, nodes[k], nodes[k + 1])])

\* the minimum cumulative resistance over all paths from s to t; with
\* non-negative resistances a cheapest path can be taken simple
MinResistance(rows, s, t) ==
  MinOf({WalkResistance(rows, p) : p \in PathsBetween(rows, s, t)})

\* the sum of the resistence attribute over emitted rows
EmittedResistance(rows) == SumSeq([k \in 1..Len(rows) |-> rows[k].resistence])

Done == pc = "done"

---------------------------------------------------------------------------
(* C1: for non-negative resistances and start # destination connected in   *)
(* the scoped edge set, the reconstructed node sequence starts at start,   *)
(* ends at destination, is a walk of the graph, and its cumulative         *)
(* resistance, the final tentative distance of destination, is the minimum *)
(* cumulative resistance over all start-to-destination paths.              *)
C1_MinimumResistancePath ==
  (/\ Done
   /\ start_pac # dest_pac
   /\ dest_pac \in Reach(gdf, start_pac))
  => /\ path_nodes # <<>>
     /\ path_nodes[1] = start_pac
     /\ Last(path_nodes) = dest_pac
     /\ IsWalk(gdf, path_nodes)
     /\ dest_pac \in DOMAIN dist
     /\ dist[dest_pac] = MinResistance(gdf, start_pac, dest_pac)
     /\ WalkResistance(gdf, path_nodes) = MinResistance(gdf, start_pac, dest_pac)

\* a path of two rows that is strictly cheaper than the direct row
C1_Witness ==
  /\ Done
  /\ start_pac # dest_pac
  /\ Len(path_nodes) = 3
  /\ RowsBetween(gdf, start_pac, dest_pac) # {}
  /\ dist[dest_pac] > 0
  /\ dist[dest_pac] < CheapestBetween(gdf, start_pac, dest_pac)

---------------------------------------------------------------------------
(* C2: for every complete result, the sum of the resistance attributes of  *)
(* the emitted edge records equals the minimum cumulative resistance       *)
(* between start and destination, parallel edges of different resistance   *)
(* and length included.                                                    *)
C2_EmittedResistanceIsMinimum ==
  (Done /\ complete)
  => EmittedResistance(path_gdf) = MinResistance(gdf, start_pac, dest_pac)

---------------------------------------------------------------------------
(* C3: the returned completeness flag is true if and only if destination   *)
(* is reachable from start in the scoped graph, start = destination        *)
(* counting as reachable.                                                  *)
C3_CompleteIffReachable ==
  Done => (complete <=> dest_pac \in Reach(gdf, start_pac))

\* a destination that rows refer to, in another component than start
C3_Witness ==
  /\ Done
  /\ ~complete
  /\ start_pac \in Referenced(gdf)
  /\ dest_pac \in Referenced(gdf)
  /\ Cardinality(Reach(gdf, start_pac)) > 1

---------------------------------------------------------------------------
(* C4: if destination is referenced by a row of the scoped circuit but is  *)
(* disconnected from start, completeness is false and the terminal node of *)
(* the reconstructed path is, among the nodes reachable from start (start  *)
(* included), one whose coordinate is geodesically nearest to the          *)
(* coordinate of destination. Start is a node of the graph here: a start   *)
(* that no row refers to has no coordinate and is the case of C7.          *)
C4_PartialEndsNearest ==
  (/\ Done
   /\ dest_pac \in Referenced(gdf)
   /\ start_pac \in Referenced(gdf)
   /\ dest_pac \notin Reach(gdf, start_pac))
  => /\ ~complete
     /\ path_nodes # <<>>
     /\ path_nodes[1] = start_pac
     /\ Last(path_nodes) \in Reach(gdf, start_pac)
     /\ \A n \in Reach(gdf, start_pac) :
          geod_inv(PacXY(Last(path_nodes)), PacXY(dest_pac))
            <= geod_inv(PacXY(n), PacXY(dest_pac))

\* the path ends one row away from start, at a node strictly nearer to
\* destination than start
C4_Witness ==
  /\ Done
  /\ ~complete
  /\ dest_pac \in Referenced(gdf)
  /\ Len(path_nodes) = 2
  /\ Len(path_gdf) = 1
  /\ geod_inv(PacXY(path_nodes[2]), PacXY(dest_pac))
       < geod_inv(PacXY(start_pac), PacXY(dest_pac))

---------------------------------------------------------------------------
(* C5: if start equals destination the engine returns a single-node,       *)
(* zero-edge path with completeness true and zero total resistance, for    *)
(* every edge set.                                                         *)
C5_StartIsDestination ==
  (Done /\ start_pac = dest_pac)
  => /\ path_nodes = <<start_pac>>
     /\ path_gdf = <<>>
     /\ complete
     /\ dist[dest_pac] = 0
     /\ EmittedResistance(path_gdf) = 0
     /\ err = "none"

\* start = destination on a node that has a row of zero resistance
C5_Witness ==
  /\ Done
  /\ start_pac = dest_pac
  /\ \E i \in DOMAIN gdf : /\ start_pac \in Range(gdf[i].connection)
                           /\ gdf[i].resistence = 0

---------------------------------------------------------------------------
---------------------------------------------------------------------------
(* C7: if destination is not reached and its coordinate cannot be resolved *)
(* because no row of the scoped circuit refers to it (or no node besides   *)
(* start receives a finite distance), the engine fails with NoPathPossible *)
(* rather than returning a path result.                                    *)
C7_Unresolvable ==
  /\ dest_pac \notin visited
  /\ \/ dest_pac \notin Referenced(gdf)
     \/ DOMAIN dist = {start_pac}

C7_WitnessNoBest ==
  /\ Done
  /\ C7_Unresolvable
  /\ dest_pac \in Referenced(gdf)

---------------------------------------------------------------------------
(* C8: Path Reconstructor on a two-node path: when exactly one row         *)
(* connects the unordered pair exactly that row is emitted; when several   *)
(* parallel rows connect it the emitted row is one of minimal geodesic     *)
(* length among them; the choice is the same for (u, v) and (v, u).        *)
C8_Holds(u, v) ==
  LET between == RowsBetween(gdf, u, v)
      ids     == nodes_to_row_ids(gdf, <<u, v>>, pair_to_rows)
  IN  (between # {})
      => /\ Len(ids) = 1
         /\ ids[1] \in between
         /\ (Cardinality(between) = 1) => between = {ids[1]}
         /\ \A i \in between :
              geodesic_length_m(gdf[ids[1]].geometry)
                <= geodesic_length_m(gdf[i].geometry)
         /\ nodes_to_row_ids(gdf, <<v, u>>, pair_to_rows) = ids
         /\ nodes_to_rows_path(gdf, <<u, v>>, pair_to_rows) = <<gdf[ids[1]]>>

C8_TwoNodePath ==
  /\ (pc # "build") =>
       \A u \in PACs : \A v \in PACs \ {u} : C8_Holds(u, v)
  /\ (Done /\ Len(path_nodes) = 2) =>
       path_gdf = nodes_to_rows_path(gdf, <<path_nodes[2], path_nodes[1]>>,
                                     pair_to_rows)

\* a returned two-node path, walked against the orientation of the rows,
\* over a pair with a longer row listed before a shorter one
C8_Witness ==
  /\ Done
  /\ Len(path_nodes) = 2
  /\ path_nodes[1] > path_nodes[2]
  /\ Len(path_gdf) = 1
  /\ \E i \in RowsBetween(gdf, path_nodes[1], path_nodes[2]) :
       /\ geodesic_length_m(gdf[i].geometry)
            > geodesic_length_m(path_gdf[1].geometry)
       /\ gdf[i] # path_gdf[1]
       /\ i = 1

---------------------------------------------------------------------------
(* The Resistance Calculator on its own: few rows, every content of the    *)
(* two lookup tables                                                       *)

MaxCalcRows == 2

\* owner ids of the rows: 103 is in no segment table
CalcCodIds == {"101", "102", "103"}

\* rows between junctions 1 and 2; a switch may carry the owner id of a segment
CalcRows ==
  {[connection |-> <<1, 2>>, cod_id |-> c, ctmt |-> "ctmt1",
    path_type |-> t, geometry |-> Line(1, 2, FALSE)] :
     c \in CalcCodIds, t \in {"ssdmt", "unsemt"}}

\* the functions from a subset of keys to values
PartialFunctions(keys, values) == UNION {[D -> values] : D \in SUBSET keys}

\* segment tables: COMP in metres, TIP_CND a conductor-type code
SsdmtTables ==
  PartialFunctions({"101", "102"},
                   [COMP : {<<500>>, <<2000>>}, TIP_CND : {"c1", "c2"}])

\* conductor tables: R1 in ohm/km
SegconTables == PartialFunctions({"c1", "c2"}, {<<1>>, <<3>>})

InitCalc ==
  /\ ServerIdle
  /\ CallerIdle
  /\ start_pac = 1
  /\ dest_pac = 2
  /\ semi_paths_gdf \in UNION {[1..n -> CalcRows] : n \in 0..MaxCalcRows}
  /\ layer_ssdmt \in SsdmtTables
  /\ layer_segcon \in SegconTables
  /\ gdf = <<>>
  /\ adj = <<>>
  /\ node_xy = <<>>
  /\ pair_to_rows = <<>>
  /\ dist = <<>>
  /\ dist_keys = <<>>
  /\ prev = <<>>
  /\ pq = <<>>
  /\ visited = {}
  /\ finalized = <<>>
  /\ path_nodes = <<>>
  /\ path_gdf = <<>>
  /\ complete = FALSE
  /\ err = "none"
  /\ pc = "build"

SpecCalc == InitCalc /\ [][sp_build]_vars

Built == pc # "build"

---------------------------------------------------------------------------
(* C9: after the Resistance Calculator runs every switch edge has          *)
(* resistance exactly 0, whatever the lookup tables contain and even when  *)
(* the switch shares its owner id with a segment.                          *)
C9_SwitchResistanceZero ==
  Built =>
    \A i \in DOMAIN gdf : (gdf[i].path_type = "unsemt") => gdf[i].resistence = 0

\* a switch and a segment of the same owner id, the segment with a resistance
C9_Witness ==
  /\ Built
  /\ \E i \in DOMAIN gdf : \E j \in DOMAIN gdf :
       /\ gdf[i].path_type = "unsemt"
       /\ gdf[j].path_type = "ssdmt"
       /\ gdf[i].cod_id = gdf[j].cod_id
       /\ gdf[j].resistence > 0

---------------------------------------------------------------------------
(* C10: for every segment edge, resistance = (length_meters / 1000) x      *)
(* resistance_per_km, length and conductor type looked up by the edge's    *)
(* own owner id and resistance_per_km by that conductor type; when either  *)
(* lookup has no entry the edge gets resistance 0, the edge is kept and no *)
(* error is raised. Resistances are in milli-ohm.                          *)
C10_Expected(row) ==
  IF row.cod_id \in DOMAIN layer_ssdmt
     /\ layer_ssdmt[row.cod_id].TIP_CND \in DOMAIN layer_segcon
    THEN layer_ssdmt[row.cod_id].COMP[1]
           * layer_segcon[layer_ssdmt[row.cod_id].TIP_CND][1]
    ELSE 0

C10_SegmentResistance ==
  Built =>
    /\ err = "none"
    /\ Len(gdf) = Len(semi_paths_gdf)
    /\ \A i \in DOMAIN gdf :
         /\ gdf[i].connection = semi_paths_gdf[i].connection
         /\ gdf[i].cod_id = semi_paths_gdf[i].cod_id
         /\ gdf[i].path_type = semi_paths_gdf[i].path_type
         /\ (gdf[i].path_type = "ssdmt")
              => gdf[i].resistence = C10_Expected(semi_paths_gdf[i])

\* two segments of different owners: one resolved through both tables, one
\* whose conductor type the conductor table does not know
C10_Witness ==
  /\ Built
  /\ \E i \in DOMAIN gdf : \E j \in DOMAIN gdf :
       /\ gdf[i].path_type = "ssdmt"
       /\ gdf[j].path_type = "ssdmt"
       /\ gdf[i].resistence = 1500
       /\ gdf[j].cod_id \in DOMAIN layer_ssdmt
       /\ layer_ssdmt[gdf[j].cod_id].TIP_CND \notin DOMAIN layer_segcon
       /\ gdf[j].resistence = 0

---------------------------------------------------------------------------
(* C18: during a search every node is finalized (popped and expanded) at   *)
(* most once, even though it may be pushed onto the priority queue several *)
(* times with different tentative distances; a later pop of an already     *)
(* finalized node changes neither distances nor predecessors.              *)

\* the nodes finalized so far, in pop order
FinalizedNodes == [k \in DOMAIN finalized |-> finalized[k][2]]

\* no node occurs twice among the finalizations, and visited is their set
C18_FinalizedOnce ==
  /\ \A i \in DOMAIN finalized : \A j \in DOMAIN finalized :
       (i # j) => (finalized[i][2] # finalized[j][2])
  /\ visited = Range(FinalizedNodes)

\* the entry heappop takes next belongs to a node that is already finalized
StalePop ==
  /\ pc = "dijkstra"
  /\ pq # <<>>
  /\ pq[heap_min(pq)][2] \in visited

\* a step that pops such an entry only removes it from the heap
C18_StalePopStep ==
  StalePop => /\ dist' = dist
              /\ prev' = prev
              /\ visited' = visited
              /\ finalized' = finalized
              /\ Len(pq') = Len(pq) - 1

C18_NoDuplicateFinalization == [](C18_FinalizedOnce) /\ [][C18_StalePopStep]_vars

\* a finalized node whose first, larger tentative distance is still in the
\* heap and is the entry popped next
C18_Witness ==
  /\ StalePop
  /\ pq[heap_min(pq)][1] > dist[pq[heap_min(pq)][2]]
  /\ pq[heap_min(pq)][2] # start_pac
  /\ Len(finalized) >= 3

---------------------------------------------------------------------------
(* C19: during a search the distances at which nodes are finalized form a  *)
(* non-decreasing sequence in pop order, and the distance at which a node  *)
(* is finalized equals its final recorded tentative distance.              *)
C19_FinalizedNonDecreasing ==
  /\ \A k \in 1..(Len(finalized) - 1) : finalized[k][1] <= finalized[k + 1][1]
  /\ \A k \in DOMAIN finalized :
       /\ finalized[k][2] \in DOMAIN dist
       /\ dist[finalized[k][2]] = finalized[k][1]

---------------------------------------------------------------------------
(* The search over lookup tables that hold a negative number: conductor c2 *)
(* carries R1 = -1, as a table does that marks an unknown value by -1.     *)
(* Only _dijkstra runs here; it ends when the heap is empty or the goal is *)
(* popped.                                                                 *)

SsdmtTableNeg == ("101" :> [COMP |-> <<1000>>, TIP_CND |-> "c1"])
              @@ ("102" :> [COMP |-> <<2000>>, TIP_CND |-> "c2"])

SegconTableNeg == ("c1" :> <<1>>) @@ ("c2" :> <<-1>>)

InitNeg ==
  /\ ServerIdle
  /\ CallerIdle
  /\ start_pac \in PACs
  /\ dest_pac \in PACs
  /\ semi_paths_gdf \in EdgeSets
  /\ layer_ssdmt = SsdmtTableNeg
  /\ layer_segcon = SegconTableNeg
  /\ gdf = <<>>
  /\ adj = <<>>
  /\ node_xy = <<>>
  /\ pair_to_rows = <<>>
  /\ dist = <<>>
  /\ dist_keys = <<>>
  /\ prev = <<>>
  /\ pq = <<>>
  /\ visited = {}
  /\ finalized = <<>>
  /\ path_nodes = <<>>
  /\ path_gdf = <<>>
  /\ complete = FALSE
  /\ err = "none"
  /\ pc = "build"

NextSearch ==
  \/ sp_build
  \/ dijkstra_pop_visited
  \/ dijkstra_pop_goal
  \/ dijkstra_pop_expand
  \/ dijkstra_exhausted

SpecNeg == InitNeg /\ [][NextSearch]_vars

---------------------------------------------------------------------------
(* The Resistance Calculator over every content of the lookup tables: a    *)
(* COMP or an R1 may be a positive number, a negative number or missing    *)

SsdmtTablesAny ==
  PartialFunctions({"101", "102"},
                   [COMP : {<<500>>, <<-500>>, NaN}, TIP_CND : {"c1", "c2"}])

SegconTablesAny == PartialFunctions({"c1", "c2"}, {<<1>>, <<-1>>, NaN})

InitCalcAny ==
  /\ ServerIdle
  /\ CallerIdle
  /\ start_pac = 1
  /\ dest_pac = 2
  /\ semi_paths_gdf \in UNION {[1..n -> CalcRows] : n \in 0..MaxCalcRows}
  /\ layer_ssdmt \in SsdmtTablesAny
  /\ layer_segcon \in SegconTablesAny
  /\ gdf = <<>>
  /\ adj = <<>>
  /\ node_xy = <<>>
  /\ pair_to_rows = <<>>
  /\ dist = <<>>
  /\ dist_keys = <<>>
  /\ prev = <<>>
  /\ pq = <<>>
  /\ visited = {}
  /\ finalized = <<>>
  /\ path_nodes = <<>>
  /\ path_gdf = <<>>
  /\ complete = FALSE
  /\ err = "none"
  /\ pc = "build"

SpecCalcAny == InitCalcAny /\ [][sp_build]_vars

---------------------------------------------------------------------------
(* C20: after the Resistance Calculator runs every edge has a resistance   *)
(* that is a number greater than or equal to 0, never negative and never   *)
(* not-a-number, for every edge set and every content of the segment and   *)
(* conductor lookup tables.                                                *)
C20_ResistanceNonNegative ==
  Built => \A i \in DOMAIN gdf : gdf[i].resistence >= 0

---------------------------------------------------------------------------
(* Edge Normalizer: create_semi_path_gdf                                   *)
(* A layer read from the file is a record of its crs, the set of its       *)
(* column names and the sequence of its rows. A raw value is <<dtype, v>>; *)
(* for a PAC code v is the integer that stands for the string of digits.   *)

CRS == "EPSG:4674"

required_cols == {"COD_ID", "CTMT", "PAC_1", "PAC_2", "geometry"}

\* Series.astype(str): the string of the value, whatever its dtype was
astype_str(x) == x[2]

\* lines 36-44: the uniform rows of a layer that passed the three tests
semi_path_rows(layer, layer_name) ==
  [i \in 1..Len(layer.rows) |->
     [connection |-> <<astype_str(layer.rows[i].PAC_1),
                       astype_str(layer.rows[i].PAC_2)>>,
      cod_id     |-> astype_str(layer.rows[i].COD_ID),
      ctmt       |-> astype_str(layer.rows[i].CTMT),
      path_type  |-> layer_name,
      geometry   |-> layer.rows[i].geometry]]

\* a faulty variant of create_semi_path_gdf: the columns are tested before
\* the reference system, and the layer name is not tested
create_semi_path_gdf_unchecked(layer, layer_name) ==
  IF required_cols \ layer.columns # {}
    THEN [err |-> "KeyError(columns)", rows |-> <<>>]
  ELSE IF layer.crs # CRS
    THEN [err |-> "ValueError(crs)", rows |-> <<>>]
  ELSE [err |-> "none", rows |-> semi_path_rows(layer, layer_name)]

\* the exception raised, "none" when none is, and the rows returned
create_semi_path_gdf(layer, layer_name) ==
  IF layer.crs # CRS
    THEN [err |-> "ValueError(crs)", rows |-> <<>>]
  ELSE IF required_cols \ layer.columns # {}
    THEN [err |-> "KeyError(columns)", rows |-> <<>>]
  ELSE IF layer_name \notin {"ssdmt", "unsemt"}
    THEN [err |-> "ValueError(path_type)", rows |-> <<>>]
  ELSE [err |-> "none", rows |-> semi_path_rows(layer, layer_name)]

---------------------------------------------------------------------------
(* The normalizer on one layer, its rows handed to the Graph Builder *)

MaxRawRows == 2

\* the raw PAC values of a layer: the codes 1 and 2, stored as text or as
\* integers
RawPacs == {<<"str", 1>>, <<"str", 2>>, <<"int64", 1>>, <<"int64", 2>>}

\* the raw rows at position k of a layer; the owner id goes by the position
RawRowsAt(k) ==
  {[COD_ID |-> <<"str", IF k = 1 THEN "101" ELSE "102">>,
    CTMT |-> <<"str", "ctmt1">>, PAC_1 |-> a, PAC_2 |-> b,
    geometry |-> Line(a[2], b[2], k # 1)] : a \in RawPacs, b \in RawPacs}

RawRowSeqs ==
  UNION {{s \in [1..n -> UNION {RawRowsAt(k) : k \in 1..MaxRawRows}] :
            \A k \in 1..n : s[k] \in RawRowsAt(k)} : n \in 0..MaxRawRows}

RawColumnSets ==
  {required_cols, required_cols \cup {"COMP", "TIP_CND"},
   required_cols \ {"PAC_2"}, required_cols \ {"COD_ID", "geometry"}}

RawLayers ==
  [crs : {CRS, "EPSG:4326"}, columns : RawColumnSets, rows : RawRowSeqs]

InitNorm ==
  /\ ServerIdle
  /\ layer_gdfs \in UNION {[{n} -> RawLayers] : n \in {"ssdmt", "unsemt", "ctmt"}}
  /\ point_of_interest = <<>>
  /\ point_of_destination = <<>>
  /\ semi_paths_all = <<>>
  /\ nearest_element_of_poi = <<>>
  /\ nearest_element_of_pod = <<>>
  /\ written = <<>>
  /\ start_pac = 1
  /\ dest_pac = 2
  /\ semi_paths_gdf = <<>>
  /\ layer_ssdmt = SsdmtTable
  /\ layer_segcon = SegconTable
  /\ gdf = <<>>
  /\ adj = <<>>
  /\ node_xy = <<>>
  /\ pair_to_rows = <<>>
  /\ dist = <<>>
  /\ dist_keys = <<>>
  /\ prev = <<>>
  /\ pq = <<>>
  /\ visited = {}
  /\ finalized = <<>>
  /\ path_nodes = <<>>
  /\ path_gdf = <<>>
  /\ complete = FALSE
  /\ err = "none"
  /\ pc = "normalize"

\* create_semi_path_gdf(layer_gdfs[n], n) returns its rows
create_layer ==
  /\ pc = "normalize"
  /\ \E n \in DOMAIN layer_gdfs :
       LET r == create_semi_path_gdf(layer_gdfs[n], n)
       IN  /\ r.err = "none"
           /\ semi_paths_gdf' = r.rows
  /\ pc' = "build"
  /\ UNCHANGED <<server, caller, start_pac, dest_pac, layer_ssdmt, layer_segcon,
                 graph, search, output>>

\* create_semi_path_gdf(layer_gdfs[n], n) raises
create_layer_raises ==
  /\ pc = "normalize"
  /\ \E n \in DOMAIN layer_gdfs :
       LET r == create_semi_path_gdf(layer_gdfs[n], n)
       IN  /\ r.err # "none"
           /\ err' = r.err
  /\ pc' = "failed"
  /\ UNCHANGED <<inputs, graph, search, path_nodes, path_gdf, complete>>

NextNorm ==
  \/ create_layer
  \/ create_layer_raises
  \/ sp_build

SpecNorm == InitNorm /\ [][NextNorm]_vars

\* the one layer of the run and its name
TheLayerName == CHOOSE n \in DOMAIN layer_gdfs : TRUE
TheLayer == layer_gdfs[TheLayerName]

---------------------------------------------------------------------------
(* C11: for all edge sets produced by the Edge Normalizer and used by the  *)
(* Graph Builder, every edge's connection pair contains exactly two        *)
(* distinct node identifiers: no edge has endpoint-A equal to endpoint-B.  *)
C11_DistinctEndpoints ==
  /\ \A i \in DOMAIN semi_paths_gdf :
       semi_paths_gdf[i].connection[1] # semi_paths_gdf[i].connection[2]
  /\ \A i \in DOMAIN gdf : gdf[i].connection[1] # gdf[i].connection[2]
  /\ \A u \in DOMAIN adj : \A k \in DOMAIN adj[u] : adj[u][k][1] # u

---------------------------------------------------------------------------
(* C12: the Edge Normalizer returns edge records only when the input's     *)
(* reference system equals the expected one, all required fields           *)
(* (identifier, circuit, endpoint-A, endpoint-B, geometry) are present and *)
(* the declared kind is segment or switch; otherwise it fails with         *)
(* InvalidReferenceSystem, MissingColumns or InvalidEdgeKind respectively  *)
(* (the first of the three tests that fails, in this order) and produces   *)
(* no records. The three failures are Python's ValueError, KeyError and    *)
(* ValueError, told apart by their message.                                *)
InvalidReferenceSystem == "ValueError(crs)"
MissingColumns == "KeyError(columns)"
InvalidEdgeKind == "ValueError(path_type)"

C12_NormalizerContract ==
  (pc # "normalize") =>
    LET ok_crs  == TheLayer.crs = CRS
        ok_cols == required_cols \subseteq TheLayer.columns
        ok_kind == TheLayerName \in {"ssdmt", "unsemt"}
    IN  /\ (err = "none") <=> (ok_crs /\ ok_cols /\ ok_kind)
        /\ ~ok_crs => err = InvalidReferenceSystem
        /\ (ok_crs /\ ~ok_cols) => err = MissingColumns
        /\ (ok_crs /\ ok_cols /\ ~ok_kind) => err = InvalidEdgeKind
        /\ (err # "none") => (semi_paths_gdf = <<>> /\ gdf = <<>>)
        /\ (err = "none") =>
             /\ Len(semi_paths_gdf) = Len(TheLayer.rows)
             /\ \A i \in DOMAIN semi_paths_gdf :
                  /\ semi_paths_gdf[i].connection
                       = <<TheLayer.rows[i].PAC_1[2], TheLayer.rows[i].PAC_2[2]>>
                  /\ semi_paths_gdf[i].cod_id = TheLayer.rows[i].COD_ID[2]
                  /\ semi_paths_gdf[i].ctmt = TheLayer.rows[i].CTMT[2]
                  /\ semi_paths_gdf[i].path_type = TheLayerName
                  /\ semi_paths_gdf[i].geometry = TheLayer.rows[i].geometry

\* a layer in the expected reference system that lacks a column and has an
\* undeclared kind: the missing column is what is reported
C12_Witness ==
  /\ pc = "failed"
  /\ TheLayer.crs = CRS
  /\ ~(required_cols \subseteq TheLayer.columns)
  /\ TheLayerName = "ctmt"
  /\ Len(TheLayer.rows) = 2
  /\ err = MissingColumns

---------------------------------------------------------------------------
(* Node Resolver: find_nearest_semi_path, search_semi_path_by_pac,         *)
(* _choose_nearest_endpoint_pac                                            *)

\* Point(xy).distance(point): the planar distance in degrees, kept as its
\* square, which orders the distances the same way
point_distance(p, q) ==
  (p[1] - q[1]) * (p[1] - q[1]) + (p[2] - q[2]) * (p[2] - q[2])

\* min_end_distance of a LineString: its first and last vertex
min_end_distance(geom, point) ==
  LET d0 == point_distance(geom[1], point)
      d1 == point_distance(geom[Len(geom)], point)
  IN  IF d0 <= d1 THEN d0 ELSE d1

\* a faulty variant of argmin_distance: the position of the largest distance
argmax_distance(semi_paths, point) ==
  CHOOSE i \in DOMAIN semi_paths :
    \A j \in DOMAIN semi_paths :
      min_end_distance(semi_paths[j].geometry, point)
        <= min_end_distance(semi_paths[i].geometry, point)

\* distances.to_numpy().argmin(): the first position of the smallest distance
argmin_distance(semi_paths, point) ==
  CHOOSE i \in DOMAIN semi_paths :
    /\ \A j \in DOMAIN semi_paths :
         min_end_distance(semi_paths[i].geometry, point)
           <= min_end_distance(semi_paths[j].geometry, point)
    /\ \A j \in DOMAIN semi_paths :
         (j < i) => min_end_distance(semi_paths[j].geometry, point)
                      > min_end_distance(semi_paths[i].geometry, point)

\* find_nearest_semi_path on a non-empty frame; argmin raises on an empty one
find_nearest_semi_path(semi_paths, point) ==
  semi_paths[argmin_distance(semi_paths, point)]

\* the positions of the rows of the mask of search_semi_path_by_pac
pac_matches(semi_paths, pac_code) ==
  {i \in DOMAIN semi_paths : \/ semi_paths[i].connection[1] = pac_code
                             \/ semi_paths[i].connection[2] = pac_code}

\* a faulty variant of search_semi_path_by_pac: matches.iloc[-1]
search_semi_path_last(semi_paths, pac_code) ==
  LET matches == pac_matches(semi_paths, pac_code)
  IN  semi_paths[CHOOSE i \in matches : \A j \in matches : j <= i]

\* search_semi_path_by_pac when matches is not empty: matches.iloc[0]
search_semi_path_by_pac(semi_paths, pac_code) ==
  LET matches == pac_matches(semi_paths, pac_code)
  IN  semi_paths[CHOOSE i \in matches : \A j \in matches : i <= j]

\* _choose_nearest_endpoint_pac: min over the items of {a: p0, b: p1}, in
\* this order, by the geodesic distance to the point
choose_nearest_endpoint_pac(row, pt) ==
  LET mapping == row_pac_endpoints(row)
      a       == row.connection[1]
      b       == row.connection[2]
  IN  IF geod_inv(mapping[a], pt) <= geod_inv(mapping[b], pt) THEN a ELSE b

---------------------------------------------------------------------------
(* main, from the layers read from the file to the write of the result *)

NumMainPacs == 4
MaxSegRows == 2
MaxSwitchRows == 1

\* start_pac and dest_pac before main assigns them
NoPac == 0

MainPacs == 1..NumMainPacs

\* the points a request may give: west of junction 1, north-east of
\* junction 2, and a point at the same distance of the three junctions
MainPoints == {<<-1, 0>>, <<3, 1>>, <<1, 0>>}

MainRequests ==
  {<<"str", n>> : n \in MainPacs} \cup {<<"tuple", p[1], p[2]>> : p \in MainPoints}

\* the owner id and the drawing of the row at position k of a layer
MainAsset(layer_name, k) ==
  IF layer_name = "ssdmt"
    THEN (IF k = 1 THEN [cod_id |-> "101", detour |-> FALSE]
                   ELSE [cod_id |-> "102", detour |-> TRUE])
    ELSE [cod_id |-> "201", detour |-> TRUE]

\* the rows a layer may hold at position k: a pair of junctions, a circuit
MainRowsAt(layer_name, k) ==
  {[COD_ID |-> <<"str", MainAsset(layer_name, k).cod_id>>,
    CTMT |-> <<"str", c>>, PAC_1 |-> <<"str", p[1]>>, PAC_2 |-> <<"str", p[2]>>,
    geometry |-> Line(p[1], p[2], MainAsset(layer_name, k).detour)] :
     p \in {q \in MainPacs \X MainPacs : q[1] < q[2]}, c \in {"ctmt1", "ctmt2"}}

MainRowSeqs(layer_name, max) ==
  UNION {{s \in [1..n -> UNION {MainRowsAt(layer_name, k) : k \in 1..max}] :
            \A k \in 1..n : s[k] \in MainRowsAt(layer_name, k)} : n \in 0..max}

\* the layers of the file: the segment layer may be in another crs
MainLayers ==
  {("ssdmt" :> [crs |-> c, columns |-> required_cols \cup {"COMP", "TIP_CND"},
                rows |-> s])
   @@ ("unsemt" :> [crs |-> CRS, columns |-> required_cols, rows |-> u]) :
     c \in {CRS, "EPSG:4326"},
     s \in MainRowSeqs("ssdmt", MaxSegRows),
     u \in MainRowSeqs("unsemt", MaxSwitchRows)}

\* COD_ID, COMP and TIP_CND of the segment layer, as add_resistence reads them
SsdmtTableOf(layer) ==
  [c \in {layer.rows[i].COD_ID[2] : i \in DOMAIN layer.rows} |-> SsdmtTable[c]]

InitMain ==
  /\ ServerIdle
  /\ layer_gdfs \in MainLayers
  /\ point_of_interest \in MainRequests
  /\ point_of_destination \in MainRequests
  /\ semi_paths_all = <<>>
  /\ nearest_element_of_poi = <<>>
  /\ nearest_element_of_pod = <<>>
  /\ written = <<>>
  /\ start_pac = NoPac
  /\ dest_pac = NoPac
  /\ semi_paths_gdf = <<>>
  /\ layer_ssdmt = SsdmtTableOf(layer_gdfs["ssdmt"])
  /\ layer_segcon = SegconTable
  /\ gdf = <<>>
  /\ adj = <<>>
  /\ node_xy = <<>>
  /\ pair_to_rows = <<>>
  /\ dist = <<>>
  /\ dist_keys = <<>>
  /\ prev = <<>>
  /\ pq = <<>>
  /\ visited = {}
  /\ finalized = <<>>
  /\ path_nodes = <<>>
  /\ path_gdf = <<>>
  /\ complete = FALSE
  /\ err = "none"
  /\ pc = "concat"

layers == <<layer_gdfs, layer_ssdmt, layer_segcon>>
request == <<point_of_interest, point_of_destination>>
engine == <<graph, search, path_nodes, path_gdf, complete>>

\* the columns create_semi_path_gdf adds to its copy of a layer (lines 39-42)
derived_cols == {"cod_id", "ctmt", "connection", "path_type"}

\* a faulty variant of main_concat: without gdf.copy() the four columns are
\* added to the layers of the caller
main_concat_in_place ==
  /\ pc = "concat"
  /\ LET s == create_semi_path_gdf(layer_gdfs["ssdmt"], "ssdmt")
         u == create_semi_path_gdf(layer_gdfs["unsemt"], "unsemt")
     IN  /\ s.err = "none"
         /\ u.err = "none"
         /\ semi_paths_all' = s.rows \o u.rows
  /\ layer_gdfs' =
       [n \in DOMAIN layer_gdfs |->
          [layer_gdfs[n] EXCEPT !.columns = @ \cup derived_cols]]
  /\ pc' = "resolve_poi"
  /\ UNCHANGED <<server, layer_ssdmt, layer_segcon, request,
                 nearest_element_of_poi,
                 nearest_element_of_pod, written, start_pac, dest_pac,
                 semi_paths_gdf, engine, err>>

\* lines 348-351: both layers are normalized and concatenated
main_concat ==
  /\ pc = "concat"
  /\ LET s == create_semi_path_gdf(layer_gdfs["ssdmt"], "ssdmt")
         u == create_semi_path_gdf(layer_gdfs["unsemt"], "unsemt")
     IN  /\ s.err = "none"
         /\ u.err = "none"
         /\ semi_paths_all' = s.rows \o u.rows
  /\ pc' = "resolve_poi"
  /\ UNCHANGED <<server, layers, request, nearest_element_of_poi,
                 nearest_element_of_pod,
                 written, start_pac, dest_pac, semi_paths_gdf, engine, err>>

\* lines 348-351: create_semi_path_gdf raises, for the first layer it does
main_concat_raises ==
  /\ pc = "concat"
  /\ LET s == create_semi_path_gdf(layer_gdfs["ssdmt"], "ssdmt")
         u == create_semi_path_gdf(layer_gdfs["unsemt"], "unsemt")
     IN  /\ (s.err # "none" \/ u.err # "none")
         /\ err' = IF s.err # "none" THEN s.err ELSE u.err
  /\ pc' = "failed"
  /\ UNCHANGED <<server, layers, request, semi_paths_all,
                 nearest_element_of_poi,
                 nearest_element_of_pod, written, start_pac, dest_pac,
                 semi_paths_gdf, engine>>

\* a request resolves against the rows: by coordinate when it is a tuple and
\* there is a row, by identifier when a row holds the identifier
resolves(req, semi_paths) ==
  IF req[1] = "tuple" THEN semi_paths # <<>>
  ELSE pac_matches(semi_paths, req[2]) # {}

\* the row resolved for a request (lines 355, 358)
resolved_row(req, semi_paths) ==
  IF req[1] = "tuple" THEN find_nearest_semi_path(semi_paths, <<req[2], req[3]>>)
  ELSE search_semi_path_by_pac(semi_paths, req[2])

\* the node resolved for a request (lines 356, 359)
resolved_pac(req, semi_paths) ==
  IF req[1] = "tuple"
    THEN choose_nearest_endpoint_pac(resolved_row(req, semi_paths),
                                     <<req[2], req[3]>>)
    ELSE req[2]

\* the exception of a request that does not resolve: argmin of an empty
\* array (line 127), or the raise of line 136
resolve_error(req) ==
  IF req[1] = "tuple" THEN "ValueError(argmin)" ELSE "ValueError(pac_code)"

\* lines 354-359
main_resolve_poi ==
  /\ pc = "resolve_poi"
  /\ resolves(point_of_interest, semi_paths_all)
  /\ nearest_element_of_poi' = resolved_row(point_of_interest, semi_paths_all)
  /\ start_pac' = resolved_pac(point_of_interest, semi_paths_all)
  /\ pc' = "resolve_pod"
  /\ UNCHANGED <<server, layers, request, semi_paths_all,
                 nearest_element_of_pod,
                 written, dest_pac, semi_paths_gdf, engine, err>>

\* a faulty variant of main_resolve_poi_raises: nothing is raised and no
\* node is resolved
main_resolve_poi_skips ==
  /\ pc = "resolve_poi"
  /\ ~resolves(point_of_interest, semi_paths_all)
  /\ pc' = "resolve_pod"
  /\ UNCHANGED <<server, layers, request, semi_paths_all,
                 nearest_element_of_poi,
                 nearest_element_of_pod, written, start_pac, dest_pac,
                 semi_paths_gdf, engine, err>>

main_resolve_poi_raises ==
  /\ pc = "resolve_poi"
  /\ ~resolves(point_of_interest, semi_paths_all)
  /\ err' = resolve_error(point_of_interest)
  /\ pc' = "failed"
  /\ UNCHANGED <<server, layers, request, semi_paths_all,
                 nearest_element_of_poi,
                 nearest_element_of_pod, written, start_pac, dest_pac,
                 semi_paths_gdf, engine>>

\* lines 361-366
main_resolve_pod ==
  /\ pc = "resolve_pod"
  /\ resolves(point_of_destination, semi_paths_all)
  /\ nearest_element_of_pod' = resolved_row(point_of_destination, semi_paths_all)
  /\ dest_pac' = resolved_pac(point_of_destination, semi_paths_all)
  /\ pc' = "scope"
  /\ UNCHANGED <<server, layers, request, semi_paths_all,
                 nearest_element_of_poi,
                 written, start_pac, semi_paths_gdf, engine, err>>

main_resolve_pod_raises ==
  /\ pc = "resolve_pod"
  /\ ~resolves(point_of_destination, semi_paths_all)
  /\ err' = resolve_error(point_of_destination)
  /\ pc' = "failed"
  /\ UNCHANGED <<server, layers, request, semi_paths_all,
                 nearest_element_of_poi,
                 nearest_element_of_pod, written, start_pac, dest_pac,
                 semi_paths_gdf, engine>>

\* a faulty variant of main_scope: the circuit of the row resolved for the
\* destination
main_scope_by_pod ==
  /\ pc = "scope"
  /\ semi_paths_gdf' =
       SelectSeq(semi_paths_all, LAMBDA r : r.ctmt = nearest_element_of_pod.ctmt)
  /\ pc' = "build"
  /\ UNCHANGED <<server, layers, request, semi_paths_all,
                 nearest_element_of_poi,
                 nearest_element_of_pod, written, start_pac, dest_pac, engine,
                 err>>

\* lines 369-370: the rows of the circuit of the row resolved for the start
main_scope ==
  /\ pc = "scope"
  /\ semi_paths_gdf' =
       SelectSeq(semi_paths_all, LAMBDA r : r.ctmt = nearest_element_of_poi.ctmt)
  /\ pc' = "build"
  /\ UNCHANGED <<server, layers, request, semi_paths_all,
                 nearest_element_of_poi,
                 nearest_element_of_pod, written, start_pac, dest_pac, engine,
                 err>>

\* a faulty variant of layer_name_of: the two names swapped
layer_name_swapped(flag) == IF flag THEN "rota_parcial" ELSE "rota_completa"

\* line 373
layer_name_of(flag) == IF flag THEN "rota_completa" ELSE "rota_parcial"

\* a faulty variant of main_persist: without "if not path_gdf.empty" the
\* layer is written whatever the result
main_persist_always ==
  /\ pc = "done"
  /\ written' = Append(written, [file |-> "output.gpkg",
                                 layer |-> layer_name_of(complete),
                                 rows |-> path_gdf])
  /\ pc' = "end"
  /\ UNCHANGED <<server, layers, request, semi_paths_all,
                 nearest_element_of_poi,
                 nearest_element_of_pod, start_pac, dest_pac, semi_paths_gdf,
                 engine, err>>

\* lines 373-375: the result is written unless it is empty
main_persist ==
  /\ pc = "done"
  /\ LET layer_name == layer_name_of(complete)
     IN  written' = IF path_gdf # <<>>
                      THEN Append(written, [file |-> "output.gpkg",
                                            layer |-> layer_name,
                                            rows |-> path_gdf])
                      ELSE written
  /\ pc' = "end"
  /\ UNCHANGED <<server, layers, request, semi_paths_all,
                 nearest_element_of_poi,
                 nearest_element_of_pod, start_pac, dest_pac, semi_paths_gdf,
                 engine, err>>

\* main: return_no_best is left out, the start that main resolves is an
\* endpoint of a row of the scoped circuit and so has a coordinate
NextMain ==
  \/ main_concat
  \/ main_concat_raises
  \/ main_resolve_poi
  \/ main_resolve_poi_raises
  \/ main_resolve_pod
  \/ main_resolve_pod_raises
  \/ main_scope
  \/ sp_build
  \/ dijkstra_pop_visited
  \/ dijkstra_pop_goal
  \/ dijkstra_pop_expand
  \/ dijkstra_exhausted
  \/ return_complete
  \/ return_no_dest_row
  \/ return_partial
  \/ main_persist

SpecMain == InitMain /\ [][NextMain]_vars

\* what NextMain leaves out cannot happen under main
MainStartHasCoordinate ==
  (pc \in {"dijkstra", "returning"}) => start_pac \in DOMAIN node_xy

---------------------------------------------------------------------------
(* Stages of main, and reference notions for the resolver properties *)

\* the concatenated rows exist: neither layer was refused
ConcatDone ==
  /\ pc # "concat"
  /\ err \notin {InvalidReferenceSystem, MissingColumns, InvalidEdgeKind}

\* the resolution of point_of_interest has returned or raised
PoiTried == ConcatDone /\ pc # "resolve_poi"

\* the resolution of point_of_destination has returned or raised
PodTried == PoiTried /\ start_pac # NoPac /\ pc # "resolve_pod"

\* row is the first row, in input order, whose connection holds id
FirstRowWith(row, id) ==
  \E i \in DOMAIN semi_paths_all :
    /\ row = semi_paths_all[i]
    /\ id \in Range(semi_paths_all[i].connection)
    /\ \A j \in 1..(i - 1) : id \notin Range(semi_paths_all[j].connection)

NoRowWith(id) ==
  \A i \in DOMAIN semi_paths_all : id \notin Range(semi_paths_all[i].connection)

\* the coordinate of the endpoint of a row that carries its k-th identifier:
\* the first vertex for the first one, the last vertex for the second one
EndpointOf(row, k) ==
  IF k = 1 THEN row.geometry[1] ELSE row.geometry[Len(row.geometry)]

\* the squared planar distance from pt to the nearer endpoint of a row
EndDistance(row, pt) ==
  MinOf({point_distance(EndpointOf(row, k), pt) : k \in {1, 2}})

\* row is the first row of smallest distance from pt to an endpoint, and
\* node is the identifier of its endpoint geodesically nearest pt, the
\* second one only if it is strictly nearer than the first
NearestRowAndNode(row, node, pt) ==
  /\ \E i \in DOMAIN semi_paths_all :
       /\ row = semi_paths_all[i]
       /\ \A j \in DOMAIN semi_paths_all :
            EndDistance(row, pt) <= EndDistance(semi_paths_all[j], pt)
       /\ \A j \in 1..(i - 1) :
            EndDistance(row, pt) < EndDistance(semi_paths_all[j], pt)
  /\ \E k \in {1, 2} :
       /\ node = row.connection[k]
       /\ \A m \in {1, 2} :
            geod_inv(EndpointOf(row, k), pt) <= geod_inv(EndpointOf(row, m), pt)
  /\ (geod_inv(EndpointOf(row, 2), pt) < geod_inv(EndpointOf(row, 1), pt))
       <=> (node = row.connection[2] /\ row.connection[2] # row.connection[1])

---------------------------------------------------------------------------
(* C13: node resolution by identifier returns the first edge, in input     *)
(* order, whose connection pair contains the identifier, and fails with    *)
(* NodeNotFound (Python's ValueError of line 136) when no edge references  *)
(* it; on success the resolved node is the identifier itself.              *)
NodeNotFound == "ValueError(pac_code)"

C13_ByIdentifier ==
  /\ (PoiTried /\ point_of_interest[1] = "str") =>
       IF NoRowWith(point_of_interest[2])
         THEN /\ pc = "failed"
              /\ err = NodeNotFound
              /\ start_pac = NoPac
              /\ nearest_element_of_poi = <<>>
         ELSE /\ FirstRowWith(nearest_element_of_poi, point_of_interest[2])
              /\ start_pac = point_of_interest[2]
              /\ pc = "failed" => dest_pac = NoPac
  /\ (PodTried /\ point_of_destination[1] = "str") =>
       IF NoRowWith(point_of_destination[2])
         THEN /\ pc = "failed"
              /\ err = NodeNotFound
              /\ dest_pac = NoPac
              /\ nearest_element_of_pod = <<>>
         ELSE /\ FirstRowWith(nearest_element_of_pod, point_of_destination[2])
              /\ dest_pac = point_of_destination[2]
              /\ err = "none"

\* the destination is given by an identifier that two rows of different
\* circuits hold
C13_Witness ==
  /\ PodTried
  /\ point_of_destination[1] = "str"
  /\ \E i \in DOMAIN semi_paths_all : \E j \in DOMAIN semi_paths_all :
       /\ i < j
       /\ nearest_element_of_pod = semi_paths_all[i]
       /\ point_of_destination[2] \in Range(semi_paths_all[j].connection)
       /\ semi_paths_all[j].ctmt # semi_paths_all[i].ctmt

---------------------------------------------------------------------------
---------------------------------------------------------------------------
(* C15: node resolution by coordinate fails with NoEdgesAvailable (the     *)
(* ValueError that argmin raises on an empty array, line 127) when the     *)
(* edge set is empty, and returns no node.                                 *)
NoEdgesAvailable == "ValueError(argmin)"

C15_EmptyEdgeSet ==
  (PoiTried /\ point_of_interest[1] = "tuple" /\ semi_paths_all = <<>>) =>
    /\ pc = "failed"
    /\ err = NoEdgesAvailable
    /\ start_pac = NoPac
    /\ nearest_element_of_poi = <<>>

\* both layers were accepted and hold no row
C15_Witness ==
  /\ pc = "failed"
  /\ ConcatDone
  /\ point_of_interest[1] = "tuple"
  /\ semi_paths_all = <<>>
  /\ layer_gdfs["ssdmt"].rows = <<>>
  /\ layer_gdfs["unsemt"].rows = <<>>

---------------------------------------------------------------------------
(* C16: the graph used for pathfinding contains only edges whose           *)
(* circuit_id equals the circuit_id of the edge resolved for the request   *)
(* (the edge resolved for the start), so every edge of any returned path,  *)
(* complete or partial, belongs to that single circuit; edges of any other *)
(* circuit are excluded even when the destination resolves to an edge of a *)
(* different circuit.                                                      *)
Scoped == pc \in {"build", "dijkstra", "returning", "done", "end"}

C16_SingleCircuit ==
  Scoped =>
    LET c == nearest_element_of_poi.ctmt
    IN  /\ semi_paths_gdf = SelectSeq(semi_paths_all, LAMBDA r : r.ctmt = c)
        /\ \A i \in DOMAIN gdf : gdf[i].ctmt = c
        /\ \A i \in DOMAIN path_gdf : path_gdf[i].ctmt = c
        /\ \A k \in DOMAIN written :
             \A i \in DOMAIN written[k].rows : written[k].rows[i].ctmt = c
        /\ \A u \in DOMAIN adj : \A k \in DOMAIN adj[u] :
             gdf[adj[u][k][3]].ctmt = c

\* the destination resolves to a row of another circuit, and a path with
\* rows is returned and written
C16_Witness ==
  /\ pc = "end"
  /\ nearest_element_of_pod.ctmt # nearest_element_of_poi.ctmt
  /\ path_gdf # <<>>
  /\ written # <<>>
  /\ Len(semi_paths_gdf) < Len(semi_paths_all)

---------------------------------------------------------------------------
(* C17: whenever the result is persisted, the layer name is                *)
(* "rota_completa" if the completeness flag is true and "rota_parcial" if  *)
(* it is false; no other layer name is ever written.                       *)
C17_LayerName ==
  /\ Len(written) <= 1
  /\ \A k \in DOMAIN written :
       /\ written[k].layer \in {"rota_completa", "rota_parcial"}
       /\ (written[k].layer = "rota_completa") <=> complete
       /\ (written[k].layer = "rota_parcial") <=> ~complete
       /\ written[k].rows = path_gdf

\* a partial path with a row is written
C17_Witness ==
  /\ pc = "end"
  /\ ~complete
  /\ Len(written) = 1
  /\ written[1].layer = "rota_parcial"
  /\ Len(written[1].rows) >= 1

---------------------------------------------------------------------------
(* C21: the search terminates as soon as the destination node is popped    *)
(* from the frontier: the pop of the destination relaxes no neighbor and   *)
(* ends the loop, and from then on no distance or predecessor entry        *)
(* changes; merely discovering (pushing) the destination does not stop the *)
(* search, which ends only with the destination popped or the heap empty.  *)
C21_StoppedAtGoal ==
  /\ (dest_pac \in visited) => pc # "dijkstra"
  /\ (pc \in {"returning", "done", "end"}) => (dest_pac \in visited \/ pq = <<>>)
  /\ (pc \in {"returning", "done", "end"} /\ dest_pac \in DOMAIN dist)
       => dest_pac \in visited

C21_GoalPopStep ==
  /\ (dest_pac \notin visited /\ dest_pac \in visited') =>
       /\ pc = "dijkstra"
       /\ pc' = "returning"
       /\ dist' = dist
       /\ dist_keys' = dist_keys
       /\ prev' = prev
       /\ Len(pq') = Len(pq) - 1
  /\ (dest_pac \in visited) =>
       /\ dist' = dist
       /\ dist_keys' = dist_keys
       /\ prev' = prev
       /\ pq' = pq
       /\ visited' = visited

C21_EarlyTermination == [](C21_StoppedAtGoal) /\ [][C21_GoalPopStep]_vars

\* the search stopped at the pop of the destination with an entry left in
\* the heap, a stale entry of the destination itself: it had been pushed
\* before at a larger distance and the search went on
C21_Witness ==
  /\ pc = "returning"
  /\ dest_pac \in visited
  /\ dest_pac # start_pac
  /\ \E k \in DOMAIN pq : pq[k][2] = dest_pac /\ pq[k][1] > dist[dest_pac]

---------------------------------------------------------------------------
(* C22: for every node sequence n0..nk produced by the engine, complete or *)
(* partial, the Path Reconstructor emits exactly k edge records in order,  *)
(* the i-th record connecting the unordered pair {n(i-1), n(i)}; each      *)
(* emitted record has the identifier, circuit, kind, geometry and          *)
(* resistance of a row of the scoped edge set; no pair is skipped.         *)
C22_OneRecordPerPair ==
  Done =>
    /\ Len(path_gdf) = (IF path_nodes = <<>> THEN 0 ELSE Len(path_nodes) - 1)
    /\ \A i \in DOMAIN path_gdf :
         /\ Range(path_gdf[i].connection) = {path_nodes[i], path_nodes[i + 1]}
         /\ \E j \in DOMAIN semi_paths_gdf :
              /\ path_gdf[i].cod_id = semi_paths_gdf[j].cod_id
              /\ path_gdf[i].ctmt = semi_paths_gdf[j].ctmt
              /\ path_gdf[i].path_type = semi_paths_gdf[j].path_type
              /\ path_gdf[i].geometry = semi_paths_gdf[j].geometry
              /\ path_gdf[i].connection = semi_paths_gdf[j].connection
              /\ path_gdf[i].resistence = gdf[j].resistence

\* a path of three records over four nodes, of more than one kind
C22_Witness ==
  /\ Done
  /\ Len(path_nodes) = 4
  /\ Len(path_gdf) = 3
  /\ path_gdf[1].path_type # path_gdf[2].path_type

\* a partial path with a record
C22_WitnessPartial ==
  /\ Done
  /\ ~complete
  /\ Len(path_nodes) = 2
  /\ Len(path_gdf) = 1

---------------------------------------------------------------------------
(* C23: after the Graph Builder has processed an edge set, for every edge  *)
(* row i with connection (a, b) and resistance w the adjacency of a holds  *)
(* (b, w, i), the adjacency of b holds (a, w, i), and i is listed under    *)
(* the unordered key {a, b} of the pair index; conversely every adjacency  *)
(* entry and every pair-index entry refers to such a row, so parallel      *)
(* edges between the same pair are all retained.                           *)
C23_GraphMatchesRows ==
  Built =>
    /\ \A i \in DOMAIN gdf :
         LET a == gdf[i].connection[1]
             b == gdf[i].connection[2]
             w == gdf[i].resistence
         IN  /\ a \in DOMAIN adj /\ <<b, w, i>> \in Range(adj[a])
             /\ b \in DOMAIN adj /\ <<a, w, i>> \in Range(adj[b])
             /\ {a, b} \in DOMAIN pair_to_rows
             /\ Cardinality({k \in DOMAIN pair_to_rows[{a, b}] :
                              pair_to_rows[{a, b}][k] = i}) = 1
    /\ \A u \in DOMAIN adj : \A k \in DOMAIN adj[u] :
         LET e == adj[u][k]
         IN  /\ e[3] \in DOMAIN gdf
             /\ e[2] = gdf[e[3]].resistence
             /\ gdf[e[3]].connection \in {<<u, e[1]>>, <<e[1], u>>}
    /\ \A key \in DOMAIN pair_to_rows : \A k \in DOMAIN pair_to_rows[key] :
         /\ pair_to_rows[key][k] \in DOMAIN gdf
         /\ Range(gdf[pair_to_rows[key][k]].connection) = key
    /\ Len(gdf) = Len(semi_paths_gdf)

\* three parallel rows between one pair, of different resistances
C23_Witness ==
  /\ Built
  /\ \E key \in DOMAIN pair_to_rows :
       /\ Len(pair_to_rows[key]) = 3
       /\ \E u \in key :
            Cardinality({adj[u][k][2] : k \in DOMAIN adj[u]}) = 3

---------------------------------------------------------------------------
(* The pop of one heap entry, told from the step alone: pq lists the       *)
(* entries in the order of their pushes, and a pop of position i leaves    *)
(* the other entries in place, followed by the pushes of the expansion.    *)
IsPrefix(s, t) == Len(s) <= Len(t) /\ \A k \in DOMAIN s : s[k] = t[k]

PopStep == pc = "dijkstra" /\ pq # <<>>

PoppedAt(i) ==
  /\ IsPrefix(RemoveAt(pq, i), pq')
  /\ finalized' # finalized => finalized' = Append(finalized, pq[i])

\* the entries of lowest distance
LowestEntries == {i \in DOMAIN pq : \A j \in DOMAIN pq : pq[i][1] <= pq[j][1]}

(* C24, as stated: when the priority queue holds several entries with the *)
(* same lowest tentative distance, the entry inserted first is popped      *)
(* first.                                                                  *)
C24_InsertionOrder ==
  [][PopStep => \E i \in LowestEntries :
                  /\ \A j \in LowestEntries : i <= j
                  /\ PoppedAt(i)]_vars

(* C24, as the code behaves: among the entries of the same lowest          *)
(* tentative distance the one with the smallest node identifier is popped  *)
(* first, whatever the order of insertion (heapq compares the (distance,   *)
(* node) tuples).                                                          *)
C24_SmallestIdentifierFirst ==
  [][PopStep => \E i \in LowestEntries :
                  /\ \A j \in LowestEntries : pq[i][2] <= pq[j][2]
                  /\ PoppedAt(i)]_vars

\* two entries of the lowest distance, the one pushed first with the larger
\* identifier, and neither node finalized yet
C24_Witness ==
  /\ PopStep
  /\ \E i \in LowestEntries : \E j \in LowestEntries :
       /\ i < j
       /\ pq[i][2] > pq[j][2]
       /\ pq[i][2] \notin visited
       /\ pq[j][2] \notin visited

---------------------------------------------------------------------------
(* C25: a path computation is a read-only pass over its inputs: the        *)
(* segment layer, the switch layer and the two lookup tables supplied by   *)
(* the caller have the same rows and columns after normalization,          *)
(* resistance calculation, graph building and search as before, whether    *)
(* the request succeeds or fails.                                          *)
C25_LayersUntouched ==
  /\ \A n \in DOMAIN layer_gdfs :
       layer_gdfs[n].columns \cap (derived_cols \cup {"resistence"}) = {}
  /\ layer_ssdmt = SsdmtTableOf(layer_gdfs["ssdmt"])
  /\ layer_segcon = SegconTable

C25_InputsReadOnly ==
  /\ [](C25_LayersUntouched)
  /\ [][/\ layer_gdfs' = layer_gdfs
        /\ layer_ssdmt' = layer_ssdmt
        /\ layer_segcon' = layer_segcon]_vars

\* a request that went through every stage and wrote a path holding a
\* segment with its resistance
C25_Witness ==
  /\ pc = "end"
  /\ written # <<>>
  /\ \E i \in DOMAIN path_gdf :
       path_gdf[i].path_type = "ssdmt" /\ path_gdf[i].resistence > 0
  /\ layer_gdfs["unsemt"].rows # <<>>

\* a request that failed after the normalization of layers that hold rows
C25_WitnessFailed ==
  /\ pc = "failed"
  /\ ConcatDone
  /\ semi_paths_all # <<>>
  /\ layer_gdfs["ssdmt"].rows # <<>>

---------------------------------------------------------------------------
(* C26: with non-negative resistances, at every point of the search the    *)
(* predecessor map is acyclic and start has no predecessor, so following   *)
(* predecessors from any node that has a tentative distance reaches start  *)
(* after finitely many steps without repeating a node; _reconstruct        *)
(* therefore always terminates, and returns the empty sequence only when   *)
(* the target was never discovered.                                        *)

\* the nodes met by following prev from n, for at most fuel steps
RECURSIVE PrevChain(_, _)
PrevChain(n, fuel) ==
  IF n = start_pac \/ n \notin DOMAIN prev \/ fuel = 0 THEN <<n>>
  ELSE <<n>> \o PrevChain(prev[n], fuel - 1)

Searching == pc \in {"dijkstra", "returning", "done"}

C26_PrevAcyclic ==
  (Searching /\ \A i \in DOMAIN gdf : gdf[i].resistence >= 0) =>
    /\ start_pac \notin DOMAIN prev
    /\ DOMAIN dist = DOMAIN prev \cup {start_pac}
    /\ \A n \in DOMAIN dist :
         LET chain == PrevChain(n, NumPacs)
         IN  /\ Last(chain) = start_pac
             /\ Cardinality(Range(chain)) = Len(chain)
             /\ Range(chain) \subseteq DOMAIN dist
    /\ \A n \in DOMAIN dist :
         reconstruct(prev, start_pac, n) = Reverse(PrevChain(n, NumPacs))
    /\ \A n \in PACs :
         reconstruct(prev, start_pac, n) = <<>> => n \notin DOMAIN dist

\* a chain of three predecessors over zero-resistance rows, where distances
\* alone do not order the nodes, and a node that was never discovered
C26_Witness ==
  /\ Searching
  /\ \E n \in DOMAIN dist :
       /\ Len(PrevChain(n, NumPacs)) = 3
       /\ dist[n] = 0
  /\ \E n \in PACs : n \notin DOMAIN dist /\ reconstruct(prev, start_pac, n) = <<>>

---------------------------------------------------------------------------
(* C27: main writes an output layer if and only if the returned path has   *)
(* at least one edge; a zero-edge result (start equals destination, or no  *)
(* usable partial path) writes nothing, whatever the completeness flag.    *)
C27_WritesIffEdges ==
  /\ pc # "end" => written = <<>>
  /\ pc = "end" => (written # <<>> <=> Len(path_gdf) >= 1)
  /\ (pc = "end" /\ start_pac = dest_pac) => written = <<>>
  /\ \A k \in DOMAIN written : Len(written[k].rows) >= 1

\* a complete zero-edge result, start equal to destination, and no write
C27_Witness ==
  /\ pc = "end"
  /\ complete
  /\ path_gdf = <<>>
  /\ written = <<>>
  /\ Len(semi_paths_gdf) >= 2

\* a partial zero-edge result and no write
C27_WitnessPartial ==
  /\ pc = "end"
  /\ ~complete
  /\ path_gdf = <<>>
  /\ written = <<>>

---------------------------------------------------------------------------
(* C28: when the destination is disconnected from start and start itself   *)
(* is the reachable node nearest to the destination's coordinate (first    *)
(* found wins among equally near nodes, and start is found first), the     *)
(* partial result is a zero-edge path with completeness false rather than  *)
(* a path to some other reachable node.                                    *)
C28_StartIsNearest ==
  (/\ Done
   /\ dest_pac \in Referenced(gdf)
   /\ start_pac \in Referenced(gdf)
   /\ dest_pac \notin Reach(gdf, start_pac)
   /\ \A n \in Reach(gdf, start_pac) :
        geod_inv(PacXY(start_pac), PacXY(dest_pac))
          <= geod_inv(PacXY(n), PacXY(dest_pac)))
  => /\ ~complete
     /\ path_nodes = <<start_pac>>
     /\ path_gdf = <<>>

\* another reachable node is as near to the destination as start is
C28_Witness ==
  /\ Done
  /\ ~complete
  /\ path_nodes = <<start_pac>>
  /\ dest_pac \in Referenced(gdf)
  /\ \E n \in Reach(gdf, start_pac) \ {start_pac} :
       geod_inv(PacXY(n), PacXY(dest_pac))
         = geod_inv(PacXY(start_pac), PacXY(dest_pac))
  /\ \A n \in Reach(gdf, start_pac) :
       geod_inv(PacXY(start_pac), PacXY(dest_pac))
         <= geod_inv(PacXY(n), PacXY(dest_pac))

---------------------------------------------------------------------------
(* The study-creation queue of study_routes.py: new_study requests and the *)
(* process_study background tasks, interleaved at their awaits on one      *)
(* event loop. A study name is an integer of 1..NumStudies. A task is      *)
(* [name, pc, raised]; processing_lock.locked is the task that holds the   *)
(* lock, 0 when it is free, and waiters are the tasks queued on it.        *)

NumStudies == 2
MaxCalls == 4

StudyNames == 1..NumStudies
TaskIds == 1..MaxCalls

\* the path finder takes no part in the study routes
path_finder == <<caller, start_pac, dest_pac, semi_paths_gdf, layer_ssdmt,
                 layer_segcon, graph, search, output, pc>>

InitQueue ==
  /\ ServerIdle
  /\ CallerIdle
  /\ start_pac = NoPac
  /\ dest_pac = NoPac
  /\ semi_paths_gdf = <<>>
  /\ layer_ssdmt = <<>>
  /\ layer_segcon = <<>>
  /\ gdf = <<>>
  /\ adj = <<>>
  /\ node_xy = <<>>
  /\ pair_to_rows = <<>>
  /\ dist = <<>>
  /\ dist_keys = <<>>
  /\ prev = <<>>
  /\ pq = <<>>
  /\ visited = {}
  /\ finalized = <<>>
  /\ path_nodes = <<>>
  /\ path_gdf = <<>>
  /\ complete = FALSE
  /\ err = "none"
  /\ pc = "idle"

status_of(queue, name) ==
  IF name \in DOMAIN queue THEN queue[name].status ELSE "absent"

\* a faulty variant of new_study_error: without the test of line 75
new_study_error_no_queue_test(name, poi_valid) ==
  IF name \in study_folders THEN "folder"
  ELSE IF ~poi_valid THEN "poi"
  ELSE "none"

\* the HTTPException new_study raises, in the order of its tests (lines
\* 69-89), "none" when the request is accepted
new_study_error(name, poi_valid) ==
  IF name \in study_folders THEN "folder"
  ELSE IF status_of(study_queue, name) \in {"queued", "processing"} THEN "queue"
  ELSE IF ~poi_valid THEN "poi"
  ELSE "none"

\* lines 69-89: the request is refused with status 400
new_study_refused(name, poi_valid) ==
  /\ Len(responses) < MaxCalls
  /\ new_study_error(name, poi_valid) # "none"
  /\ responses' = Append(responses, [name |-> name, code |-> 400,
                                     detail |-> new_study_error(name, poi_valid)])
  /\ UNCHANGED <<study_queue, study_folders, tasks, processing_lock,
                 path_finder>>

\* lines 91-107: the entry is written and process_study is scheduled
new_study_queued(name, poi_valid) ==
  /\ Len(responses) < MaxCalls
  /\ new_study_error(name, poi_valid) = "none"
  /\ study_queue' = Put(study_queue, name, [status |-> "queued"])
  /\ tasks' = Append(tasks, [name |-> name, pc |-> "scheduled",
                             raised |-> FALSE])
  /\ responses' = Append(responses, [name |-> name, code |-> 200,
                                     detail |-> "queued"])
  /\ UNCHANGED <<study_folders, processing_lock, path_finder>>

set_status(queue, name, status) == Put(queue, name, [status |-> status])

\* line 23 with the lock free and nobody waiting: the lock is taken at
\* once, and lines 25-31 run up to the first await
process_study_acquires(t) ==
  /\ t \in DOMAIN tasks
  /\ tasks[t].pc = "scheduled"
  /\ processing_lock.locked = 0
  /\ processing_lock.waiters = <<>>
  /\ processing_lock' = [processing_lock EXCEPT !.locked = t]
  /\ study_queue' = set_status(study_queue, tasks[t].name, "processing")
  /\ tasks' = [tasks EXCEPT ![t].pc = "get_region_by_poi"]
  /\ UNCHANGED <<study_folders, responses, path_finder>>

\* a faulty variant of process_study_waits: without "async with
\* processing_lock" the task goes on whoever holds the lock
process_study_barges(t) ==
  /\ t \in DOMAIN tasks
  /\ tasks[t].pc = "scheduled"
  /\ ~(processing_lock.locked = 0 /\ processing_lock.waiters = <<>>)
  /\ study_queue' = set_status(study_queue, tasks[t].name, "processing")
  /\ tasks' = [tasks EXCEPT ![t].pc = "get_region_by_poi"]
  /\ UNCHANGED <<study_folders, processing_lock, responses, path_finder>>

\* line 23 with the lock held, or promised to a waiter: the task waits
process_study_waits(t) ==
  /\ t \in DOMAIN tasks
  /\ tasks[t].pc = "scheduled"
  /\ ~(processing_lock.locked = 0 /\ processing_lock.waiters = <<>>)
  /\ processing_lock' =
       [processing_lock EXCEPT !.waiters = Append(@, t)]
  /\ tasks' = [tasks EXCEPT ![t].pc = "waiting"]
  /\ UNCHANGED <<study_queue, study_folders, responses, path_finder>>

\* line 23: the first waiter is woken by the release and takes the lock,
\* and lines 25-31 run up to the first await
process_study_wakes(t) ==
  /\ t \in DOMAIN tasks
  /\ tasks[t].pc = "waiting"
  /\ processing_lock.locked = 0
  /\ processing_lock.waiters # <<>>
  /\ Head(processing_lock.waiters) = t
  /\ processing_lock' = [locked |-> t, waiters |-> Tail(processing_lock.waiters)]
  /\ study_queue' = set_status(study_queue, tasks[t].name, "processing")
  /\ tasks' = [tasks EXCEPT ![t].pc = "get_region_by_poi"]
  /\ UNCHANGED <<study_folders, responses, path_finder>>

\* lines 31-37 and 37-44: a call in the executor returns
process_study_step_returns(t) ==
  /\ t \in DOMAIN tasks
  /\ tasks[t].pc \in {"get_region_by_poi", "get_substation_by_poi"}
  /\ tasks' = [tasks EXCEPT ![t].pc =
                 IF @ = "get_region_by_poi" THEN "get_substation_by_poi"
                 ELSE "create_new_study"]
  /\ UNCHANGED <<study_queue, study_folders, processing_lock, responses,
                 path_finder>>

\* create_new_study in the executor thread: create_study_folder
\* (study_manager.py, line 166)
create_study_folder(t) ==
  /\ t \in DOMAIN tasks
  /\ tasks[t].pc = "create_new_study"
  /\ study_folders' = study_folders \cup {tasks[t].name}
  /\ tasks' = [tasks EXCEPT ![t].pc = "folder_created"]
  /\ UNCHANGED <<study_queue, processing_lock, responses, path_finder>>

\* lines 44-54: create_new_study returns, and the lock is released
process_study_completes(t) ==
  /\ t \in DOMAIN tasks
  /\ tasks[t].pc = "folder_created"
  /\ study_queue' = set_status(study_queue, tasks[t].name, "completed")
  /\ processing_lock' = [processing_lock EXCEPT !.locked = 0]
  /\ tasks' = [tasks EXCEPT ![t].pc = "finished"]
  /\ UNCHANGED <<study_folders, responses, path_finder>>

InExecutor ==
  {"get_region_by_poi", "get_substation_by_poi", "create_new_study",
   "folder_created"}

\* a faulty variant of process_study_raises: without the except clause the
\* exception leaves the task and the status stays as it is
process_study_raises_unhandled(t) ==
  /\ t \in DOMAIN tasks
  /\ tasks[t].pc \in InExecutor
  /\ processing_lock' = [processing_lock EXCEPT !.locked = 0]
  /\ tasks' = [tasks EXCEPT ![t].pc = "finished", ![t].raised = TRUE]
  /\ UNCHANGED <<study_queue, study_folders, responses, path_finder>>

\* lines 56-59: a step raises, the status is "failed", and the lock is
\* released
process_study_raises(t) ==
  /\ t \in DOMAIN tasks
  /\ tasks[t].pc \in InExecutor
  /\ study_queue' = set_status(study_queue, tasks[t].name, "failed")
  /\ processing_lock' = [processing_lock EXCEPT !.locked = 0]
  /\ tasks' = [tasks EXCEPT ![t].pc = "finished", ![t].raised = TRUE]
  /\ UNCHANGED <<study_folders, responses, path_finder>>

\* what the event loop and the executor do for task t
process_study(t) ==
  \/ process_study_acquires(t)
  \/ process_study_waits(t)
  \/ process_study_wakes(t)
  \/ process_study_step_returns(t)
  \/ create_study_folder(t)
  \/ process_study_completes(t)
  \/ process_study_raises(t)

NextQueue ==
  \/ \E name \in StudyNames : \E poi_valid \in BOOLEAN :
       new_study_refused(name, poi_valid)
  \/ \E name \in StudyNames : \E poi_valid \in BOOLEAN :
       new_study_queued(name, poi_valid)
  \/ \E t \in TaskIds : process_study(t)

SpecQueue == InitQueue /\ [][NextQueue]_vars

\* every scheduled task is run, and every call in the executor returns or
\* raises
SpecQueueFair ==
  SpecQueue /\ \A t \in TaskIds : WF_vars(process_study(t))

---------------------------------------------------------------------------
(* C29: in the study-creation queue, for every interleaving of new_study   *)
(* requests and background process_study tasks, at most one study has      *)
(* status "processing" at any time.                                        *)
Processing == {n \in DOMAIN study_queue : study_queue[n].status = "processing"}

C29_OneProcessing ==
  /\ Cardinality(Processing) <= 1
  /\ \A n \in Processing :
       /\ processing_lock.locked \in DOMAIN tasks
       /\ tasks[processing_lock.locked].name = n

\* one study is being processed while the task of another waits on the lock
C29_Witness ==
  /\ Cardinality(Processing) = 1
  /\ \E t \in DOMAIN tasks :
       /\ tasks[t].pc = "waiting"
       /\ study_queue[tasks[t].name].status = "queued"
       /\ tasks[t].name \notin Processing
  /\ \E t \in DOMAIN tasks : tasks[t].pc = "create_new_study"

---------------------------------------------------------------------------
(* C30: in the study-creation queue, every study accepted with status      *)
(* "queued" eventually reaches "completed" or "failed" (each step in the   *)
(* executor returns or raises); its status only moves queued ->            *)
(* processing -> completed or failed; an exception in any step yields      *)
(* "failed"; and a new_study request for a name whose status is "queued"   *)
(* or "processing" is rejected without changing that entry.                *)

\* the moves of the status of one name in a step; a name that has reached
\* "completed" or "failed", or has no entry, gets a new entry only by an
\* accepted new_study
C30_StatusMoves ==
  \A n \in StudyNames :
    LET old == status_of(study_queue, n)
        new == status_of(study_queue', n)
    IN  old # new =>
          \/ old = "queued" /\ new = "processing"
          \/ old = "processing" /\ new \in {"completed", "failed"}
          \/ /\ old \in {"absent", "completed", "failed"}
             /\ new = "queued"
             /\ Len(responses') = Len(responses) + 1
             /\ responses'[Len(responses')] =
                  [name |-> n, code |-> 200, detail |-> "queued"]

C30_RaiseFails ==
  \A t \in DOMAIN tasks :
    (~tasks[t].raised /\ tasks'[t].raised) =>
      /\ status_of(study_queue, tasks[t].name) = "processing"
      /\ status_of(study_queue', tasks[t].name) = "failed"

C30_BusyNameRejected ==
  (Len(responses') = Len(responses) + 1) =>
    LET r == responses'[Len(responses')]
    IN  (status_of(study_queue, r.name) \in {"queued", "processing"}) =>
          /\ r.code = 400
          /\ study_queue' = study_queue
          /\ tasks' = tasks
          /\ processing_lock' = processing_lock

\* one live task for each queued or processing entry, none for the others
C30_OneTaskPerEntry ==
  \A n \in StudyNames :
    Cardinality({t \in DOMAIN tasks : tasks[t].name = n /\ tasks[t].pc # "finished"})
      = (IF status_of(study_queue, n) \in {"queued", "processing"} THEN 1 ELSE 0)

C30_QueueLifecycle ==
  /\ [](C30_OneTaskPerEntry)
  /\ [][C30_StatusMoves /\ C30_RaiseFails /\ C30_BusyNameRejected]_vars
  /\ \A n \in StudyNames :
       (status_of(study_queue, n) = "queued")
         ~> (status_of(study_queue, n) \in {"completed", "failed"})

\* a study has failed by an exception and was accepted again, another one
\* has completed after waiting on the lock, and a request for a name that
\* was being processed has been refused
C30_Witness ==
  /\ \E t \in DOMAIN tasks : \E u \in DOMAIN tasks :
       /\ t < u
       /\ tasks[t].name = tasks[u].name
       /\ tasks[t].raised
       /\ tasks[u].pc = "finished"
       /\ ~tasks[u].raised
       /\ study_queue[tasks[u].name].status = "completed"
  /\ \E k \in DOMAIN responses : responses[k].detail = "queue"

===========================================================================
